---- MODULE Spec2Model ----
(***************************************************************************)
(* Model of the BFS namespace of src/cpp/algorithms/bfs.h: the Graph       *)
(* container (adjList, isDirected) and the queries built on the BFS loop.  *)
(* Every query is the source's loop, written as operators over the locals  *)
(* of the call (visited, queue, result, parent).  traverse is additionally *)
(* run one statement group at a time so that the loop itself is observable.*)
(* The containers of src/cpp/data_structures (QueueArray, QueueLinked,      *)
(* LinkedList) are objects whose methods are the actions, the linked ones   *)
(* over a heap of nodes; QuickSort and BinarySearch of src/cpp/algorithms   *)
(* are operators applied to vectors drawn in the initial state.            *)
(***************************************************************************)
EXTENDS Integers, Sequences, FiniteSets, TLC

\* ---------------------------------------------------------------- bounds
MaxId == 2
MaxEdges == 3
MaxDistanceArg == 2

\* concurrent callers, and the addEdge calls that built the graph they share
NumThreads == 2
ConcEdges == 2

Threads == 1..NumThreads

\* vertex ids are ints; the range includes the value -1 that shortestPath
\* also uses as its "no parent" mark
Ids == -1..MaxId
DistanceArgs == -1..MaxDistanceArg

\* gridBFS inputs: grids of at most MaxRows x MaxCols cells with at most
\* MaxBlocked obstacles; coordinates from one below to one above the range
MaxRows == 3
MaxCols == 3
MaxBlocked == 2

\* containers: element values, and the capacity of a QueueArray
MaxValue == 2
MaxCapacity == 3

Values == 1..MaxValue

\* the nodes that can be allocated at one time; nullptr is address 0
MaxNodes == 3

\* sorting and searching: vectors of at most MaxLen keys 1..MaxKey
MaxLen == 4
MaxKey == 3

Keys == 1..MaxKey

\* rotated vectors handed to searchRotated have at most MaxRotatedLen keys
MaxRotatedLen == 5

\* matrices handed to search2D have at most MaxMatrixRows x MaxMatrixCols keys
MaxMatrixRows == 2
MaxMatrixCols == 3

Addrs == 1..MaxNodes
Null == 0

RowArgs == -1..MaxRows
ColArgs == -1..MaxCols

\* the Graph object and the graph call in progress
VARIABLES adjList, isDirected, call, pc, frame

\* the grid handed to gridBFS and the gridBFS call in progress
VARIABLES grid, gcall, gpc, gframe

\* the traverse calls of concurrent callers on the one Graph
VARIABLES threads

graphVars == <<adjList, isDirected, call, pc, frame>>

gridVars == <<grid, gcall, gpc, gframe>>

concVars == <<threads>>

\* a QueueArray object, the call made on it last, and the elements enqueued
\* since the last clear and not yet dequeued, oldest first
VARIABLES qa, qaCall, qaFifo

queueArrayVars == <<qa, qaCall, qaFifo>>

\* a QueueLinked object with the nodes it has allocated, the call made on it
\* last, and the elements enqueued and not yet dequeued, oldest first
VARIABLES ql, qlCall, qlFifo

queueLinkedVars == <<ql, qlCall, qlFifo>>

\* a LinkedList object with the nodes it has allocated and the call made on
\* it last
VARIABLES ll, llCall

linkedListVars == <<ll, llCall>>

\* the vector handed to a QuickSort function and the call made last
VARIABLES vec, sortCall

sortVars == <<vec, sortCall>>

\* the sorted vector and the target handed to a BinarySearch function, and the
\* call made last
VARIABLES searchArr, searchTarget, searchCall

\* the matrix handed to search2D and the search2D call made last
VARIABLES matrix, matrixCall

searchVars == <<searchArr, searchTarget, searchCall, matrix, matrixCall>>

libVars == <<queueArrayVars, queueLinkedVars, linkedListVars, sortVars, searchVars>>

vars == <<adjList, isDirected, call, pc, frame, gridVars, concVars, libVars>>

\* ------------------------------------------------------- sequence helpers
SeqSet(s) == {s[i] : i \in 1..Len(s)}

Reverse(s) == [i \in 1..Len(s) |-> s[Len(s) + 1 - i]]

NoDuplicates(s) == \A i, j \in 1..Len(s) : i # j => s[i] # s[j]

\* every iteration order an unordered_map with key set S can have
RECURSIVE Enumerations(_)
Enumerations(S) ==
    IF S = {} THEN {<<>>}
    ELSE UNION {{<<x>> \o rest : rest \in Enumerations(S \ {x})} : x \in S}

\* ------------------------------------------------------------ class Graph
EmptyAdjList == [v \in {} |-> <<>>]

\* adjList[key].push_back(x): operator[] creates the entry when it is absent
PushBackAt(g, key, x) ==
    [w \in DOMAIN g \cup {key} |->
        IF w = key
        THEN Append(IF key \in DOMAIN g THEN g[key] ELSE <<>>, x)
        ELSE g[w]]

\* addEdge without the reverse entry of an undirected edge
addEdgeOneWay(g, directed, from, to) == PushBackAt(g, from, to)

addEdge(g, directed, from, to) ==
    LET g1 == PushBackAt(g, from, to)
    IN  IF ~directed THEN PushBackAt(g1, to, from) ELSE g1

\* addVertex assigning an empty sequence whether or not the key exists
addVertexReset(g, vertex) ==
    [w \in DOMAIN g \cup {vertex} |-> IF w = vertex THEN <<>> ELSE g[w]]

addVertex(g, vertex) ==
    IF vertex \notin DOMAIN g
    THEN [w \in DOMAIN g \cup {vertex} |-> IF w = vertex THEN <<>> ELSE g[w]]
    ELSE g

getNeighbors(g, vertex) == IF vertex \in DOMAIN g THEN g[vertex] ELSE <<>>

\* a lookup that goes through operator[]: an absent key gets an empty entry
FindInserting(g, vertex) ==
    [w \in DOMAIN g \cup {vertex} |-> IF w \in DOMAIN g THEN g[w] ELSE <<>>]

\* the map after adjList.find(vertex), the lookup getNeighbors and hasVertex do
Find(g, vertex) == g

hasVertex(g, vertex) == vertex \in DOMAIN g

getVertexCount(g) == Cardinality(DOMAIN g)

\* getAllVertices walks the unordered_map: the keys, in the map's iteration
\* order, which the standard leaves open; the set of vectors it can return
getAllVertices(g) == Enumerations(DOMAIN g)

\* --------------------------------------------------------------- traverse
\* variant of TraverseInit: visited.insert(start) left out
TraverseInitUnmarked(start) ==
    [start |-> start, visited |-> {}, queue |-> <<start>>,
     result |-> <<>>, current |-> start, i |-> 1]

\* queue.push(start); visited.insert(start);
TraverseInit(start) ==
    [start |-> start, visited |-> {start}, queue |-> <<start>>,
     result |-> <<>>, current |-> start, i |-> 1]

\* variant of TraverseDequeue: takes the newest queue entry (queue.back())
TraverseDequeueBack(st) ==
    [st EXCEPT !.current = st.queue[Len(st.queue)],
               !.queue = SubSeq(st.queue, 1, Len(st.queue) - 1),
               !.result = Append(st.result, st.queue[Len(st.queue)]), !.i = 1]

\* current = queue.front(); queue.pop(); result.push_back(current);
TraverseDequeue(st) ==
    [st EXCEPT !.current = Head(st.queue), !.queue = Tail(st.queue),
               !.result = Append(st.result, Head(st.queue)), !.i = 1]

\* variant of VisitOne: the neighbor goes to the head of the queue (a stack)
VisitOnePushFront(neighbor, st) ==
    IF neighbor \notin st.visited
    THEN [st EXCEPT !.visited = @ \cup {neighbor}, !.queue = <<neighbor>> \o @]
    ELSE st

\* body of the for loop over the neighbors of current
VisitOne(neighbor, st) ==
    IF neighbor \notin st.visited
    THEN [st EXCEPT !.visited = @ \cup {neighbor}, !.queue = Append(@, neighbor)]
    ELSE st

RECURSIVE VisitNeighbors(_, _, _)
VisitNeighbors(nbrs, i, st) ==
    IF i > Len(nbrs) THEN st
    ELSE VisitNeighbors(nbrs, i + 1, VisitOne(nbrs[i], st))

RECURSIVE TraverseLoop(_, _)
TraverseLoop(g, st) ==
    IF st.queue = <<>> THEN st.result
    ELSE LET d == TraverseDequeue(st)
         IN  TraverseLoop(g, VisitNeighbors(getNeighbors(g, d.current), 1, d))

traverse(g, start) ==
    IF ~hasVertex(g, start) THEN <<>>
    ELSE TraverseLoop(g, TraverseInit(start))

\* ----------------------------------------------------------- shortestPath
NoParent == -1

\* queue.push(start); visited.insert(start); parent[start] = -1;
PathInit(start) ==
    [visited |-> {start}, queue |-> <<start>>,
     parent |-> [v \in {start} |-> NoParent]]

\* parent[key] = value on an unordered_map
MapPut(m, key, value) ==
    [w \in DOMAIN m \cup {key} |-> IF w = key THEN value ELSE m[w]]

\* parent[node] read through operator[]: an absent key reads as int() = 0
MapGet(m, key) == IF key \in DOMAIN m THEN m[key] ELSE 0

PathVisitOne(neighbor, current, st) ==
    IF neighbor \notin st.visited
    THEN [st EXCEPT !.visited = @ \cup {neighbor},
                    !.parent = MapPut(@, neighbor, current),
                    !.queue = Append(@, neighbor)]
    ELSE st

RECURSIVE PathVisitNeighbors(_, _, _, _)
PathVisitNeighbors(nbrs, i, current, st) ==
    IF i > Len(nbrs) THEN st
    ELSE PathVisitNeighbors(nbrs, i + 1, current, PathVisitOne(nbrs[i], current, st))

\* while (node != -1) { path.push_back(node); node = parent[node]; }
RECURSIVE WalkParents(_, _, _)
WalkParents(parent, node, path) ==
    IF node # NoParent
    THEN WalkParents(parent, MapGet(parent, node), Append(path, node))
    ELSE path

ReconstructPath(parent, target) == Reverse(WalkParents(parent, target, <<>>))

RECURSIVE PathLoop(_, _, _)
PathLoop(g, target, st) ==
    IF st.queue = <<>> THEN <<>>
    ELSE LET current == Head(st.queue)
             popped == [st EXCEPT !.queue = Tail(st.queue)]
         IN  IF current = target
             THEN ReconstructPath(st.parent, target)
             ELSE PathLoop(g, target,
                    PathVisitNeighbors(getNeighbors(g, current), 1, current, popped))

shortestPath(g, start, target) ==
    IF ~hasVertex(g, start) \/ ~hasVertex(g, target) THEN <<>>
    ELSE IF start = target THEN <<start>>
    ELSE PathLoop(g, target, PathInit(start))

\* ------------------------------------------------------- shortestDistance
\* the queue holds {vertex, distance} pairs; found/ret model the return
\* from inside the for loop
DistanceInit(start) ==
    [visited |-> {start}, queue |-> <<<<start, 0>>>>, found |-> FALSE, ret |-> -1]

\* variant of DistanceVisitOne: returns distance instead of distance + 1
DistanceVisitOneOffByOne(neighbor, target, distance, st) ==
    IF st.found THEN st
    ELSE IF neighbor = target
    THEN [st EXCEPT !.found = TRUE, !.ret = distance]
    ELSE IF neighbor \notin st.visited
    THEN [st EXCEPT !.visited = @ \cup {neighbor},
                    !.queue = Append(@, <<neighbor, distance + 1>>)]
    ELSE st

\* body of the for loop: return when the neighbor is the target, else visit
DistanceVisitOne(neighbor, target, distance, st) ==
    IF st.found THEN st
    ELSE IF neighbor = target
    THEN [st EXCEPT !.found = TRUE, !.ret = distance + 1]
    ELSE IF neighbor \notin st.visited
    THEN [st EXCEPT !.visited = @ \cup {neighbor},
                    !.queue = Append(@, <<neighbor, distance + 1>>)]
    ELSE st

RECURSIVE DistanceVisitNeighbors(_, _, _, _, _)
DistanceVisitNeighbors(nbrs, i, target, distance, st) ==
    IF i > Len(nbrs) \/ st.found THEN st
    ELSE DistanceVisitNeighbors(nbrs, i + 1, target, distance,
            DistanceVisitOne(nbrs[i], target, distance, st))

RECURSIVE DistanceLoop(_, _, _)
DistanceLoop(g, target, st) ==
    IF st.found THEN st.ret
    ELSE IF st.queue = <<>> THEN -1
    ELSE LET current == Head(st.queue)[1]
             distance == Head(st.queue)[2]
             popped == [st EXCEPT !.queue = Tail(st.queue)]
         IN  DistanceLoop(g, target,
                DistanceVisitNeighbors(getNeighbors(g, current), 1, target, distance, popped))

\* shortestDistance with the start == target return tested before hasVertex
shortestDistanceSameFirst(g, start, target) ==
    IF start = target THEN 0
    ELSE IF ~hasVertex(g, start) \/ ~hasVertex(g, target) THEN -1
    ELSE DistanceLoop(g, target, DistanceInit(start))

shortestDistance(g, start, target) ==
    IF ~hasVertex(g, start) \/ ~hasVertex(g, target) THEN -1
    ELSE IF start = target THEN 0
    ELSE DistanceLoop(g, target, DistanceInit(start))

\* ----------------------------------------------------- verticesAtDistance
LevelInit(start) ==
    [visited |-> {start}, queue |-> <<<<start, 0>>>>, result |-> <<>>]

\* variant of LevelVisitOne: pushes currentDistance instead of
\* currentDistance + 1
LevelVisitOneSameDistance(neighbor, currentDistance, st) ==
    IF neighbor \notin st.visited
    THEN [st EXCEPT !.visited = @ \cup {neighbor},
                    !.queue = Append(@, <<neighbor, currentDistance>>)]
    ELSE st

LevelVisitOne(neighbor, currentDistance, st) ==
    IF neighbor \notin st.visited
    THEN [st EXCEPT !.visited = @ \cup {neighbor},
                    !.queue = Append(@, <<neighbor, currentDistance + 1>>)]
    ELSE st

RECURSIVE LevelVisitNeighbors(_, _, _, _)
LevelVisitNeighbors(nbrs, i, currentDistance, st) ==
    IF i > Len(nbrs) THEN st
    ELSE LevelVisitNeighbors(nbrs, i + 1, currentDistance,
            LevelVisitOne(nbrs[i], currentDistance, st))

RECURSIVE LevelLoop(_, _, _)
LevelLoop(g, distance, st) ==
    IF st.queue = <<>> THEN st.result
    ELSE LET current == Head(st.queue)[1]
             currentDistance == Head(st.queue)[2]
             popped == [st EXCEPT !.queue = Tail(st.queue)]
         IN  IF currentDistance = distance
             THEN LevelLoop(g, distance, [popped EXCEPT !.result = Append(@, current)])
             ELSE IF currentDistance < distance
             THEN LevelLoop(g, distance,
                    LevelVisitNeighbors(getNeighbors(g, current), 1, currentDistance, popped))
             ELSE LevelLoop(g, distance, popped)

\* the locals of a verticesAtDistance call that has reached its loop
LevelFrame(start, distance) ==
    [start |-> start, distance |-> distance, visited |-> {start},
     queue |-> <<<<start, 0>>>>, result |-> <<>>]

\* one iteration of the while loop that also expands a vertex at the target
\* distance (currentDistance <= distance instead of <)
LevelStepNoPrune(g, st) ==
    LET current == Head(st.queue)[1]
        currentDistance == Head(st.queue)[2]
        popped == [st EXCEPT !.queue = Tail(st.queue)]
        collected == IF currentDistance = st.distance
                     THEN [popped EXCEPT !.result = Append(@, current)]
                     ELSE popped
    IN  IF currentDistance <= st.distance
        THEN LevelVisitNeighbors(getNeighbors(g, current), 1, currentDistance, collected)
        ELSE collected

\* one iteration of the while loop
LevelStep(g, st) ==
    LET current == Head(st.queue)[1]
        currentDistance == Head(st.queue)[2]
        popped == [st EXCEPT !.queue = Tail(st.queue)]
    IN  IF currentDistance = st.distance
        THEN [popped EXCEPT !.result = Append(@, current)]
        ELSE IF currentDistance < st.distance
        THEN LevelVisitNeighbors(getNeighbors(g, current), 1, currentDistance, popped)
        ELSE popped

verticesAtDistance(g, start, distance) ==
    IF ~hasVertex(g, start) \/ distance < 0 THEN <<>>
    ELSE IF distance = 0 THEN <<start>>
    ELSE LevelLoop(g, distance, LevelInit(start))

\* ------------------------------------------------------------ isConnected
isConnected(g, vertices) ==
    IF vertices = <<>> THEN TRUE
    ELSE Len(traverse(g, vertices[1])) = Len(vertices)

\* ------------------------------------------------ findConnectedComponents
\* queue.push(vertex); visited.insert(vertex); globalVisited.insert(vertex);
ComponentInit(vertex, globalVisited) ==
    [visited |-> {vertex}, queue |-> <<vertex>>, component |-> <<>>,
     globalVisited |-> globalVisited \cup {vertex}]

ComponentVisitOne(neighbor, st) ==
    IF neighbor \notin st.visited
    THEN [st EXCEPT !.visited = @ \cup {neighbor},
                    !.globalVisited = @ \cup {neighbor},
                    !.queue = Append(@, neighbor)]
    ELSE st

RECURSIVE ComponentVisitNeighbors(_, _, _)
ComponentVisitNeighbors(nbrs, i, st) ==
    IF i > Len(nbrs) THEN st
    ELSE ComponentVisitNeighbors(nbrs, i + 1, ComponentVisitOne(nbrs[i], st))

RECURSIVE ComponentLoop(_, _)
ComponentLoop(g, st) ==
    IF st.queue = <<>> THEN st
    ELSE LET current == Head(st.queue)
             popped == [st EXCEPT !.queue = Tail(st.queue),
                                  !.component = Append(@, current)]
         IN  ComponentLoop(g, ComponentVisitNeighbors(getNeighbors(g, current), 1, popped))

\* the for loop over graph.getAllVertices()
RECURSIVE ComponentsFrom(_, _, _, _, _)
ComponentsFrom(g, vertices, k, components, globalVisited) ==
    IF k > Len(vertices) THEN components
    ELSE IF vertices[k] \notin globalVisited
    THEN LET done == ComponentLoop(g, ComponentInit(vertices[k], globalVisited))
         IN  ComponentsFrom(g, vertices, k + 1,
                Append(components, done.component), done.globalVisited)
    ELSE ComponentsFrom(g, vertices, k + 1, components, globalVisited)

findConnectedComponents(g, vertices) == ComponentsFrom(g, vertices, 1, <<>>, {})

\* ------------------------------------------------------------------ gridBFS
\* a grid is a sequence of rows, a row a sequence of cells (0 walkable, 1
\* obstacle); the code's 0-based cell (row, col) is grid[row + 1][col + 1]
Cell(m, row, col) == m[row + 1][col + 1]

SetCell(m, row, col, x) == [m EXCEPT ![row + 1][col + 1] = x]

Filled(rows, cols, x) == [r \in 1..rows |-> [c \in 1..cols |-> x]]

NoCell == <<-1, -1>>

\* the directions without the step up
directionsNoUp == << <<1, 0>>, <<0, -1>>, <<0, 1>> >>

\* up, down, left, right
directions == << <<-1, 0>>, <<1, 0>>, <<0, -1>>, <<0, 1>> >>

\* the start == target return tested before the bounds and obstacle checks
GridEntrySameFirst(g, startRow, startCol, targetRow, targetCol) ==
    IF Len(g) = 0 \/ Len(g[1]) = 0 THEN "empty"
    ELSE IF startRow = targetRow /\ startCol = targetCol THEN "same"
    ELSE LET rows == Len(g)
             cols == Len(g[1])
         IN  IF \/ startRow < 0 \/ startRow >= rows \/ startCol < 0 \/ startCol >= cols
                \/ targetRow < 0 \/ targetRow >= rows \/ targetCol < 0 \/ targetCol >= cols
                \/ Cell(g, startRow, startCol) = 1 \/ Cell(g, targetRow, targetCol) = 1
             THEN "invalid"
             ELSE "search"

\* the checks before the search: which return statement, if any, is taken
GridEntry(g, startRow, startCol, targetRow, targetCol) ==
    IF Len(g) = 0 \/ Len(g[1]) = 0 THEN "empty"
    ELSE LET rows == Len(g)
             cols == Len(g[1])
         IN  IF \/ startRow < 0 \/ startRow >= rows \/ startCol < 0 \/ startCol >= cols
                \/ targetRow < 0 \/ targetRow >= rows \/ targetCol < 0 \/ targetCol >= cols
                \/ Cell(g, startRow, startCol) = 1 \/ Cell(g, targetRow, targetCol) = 1
             THEN "invalid"
             ELSE IF startRow = targetRow /\ startCol = targetCol THEN "same"
             ELSE "search"

\* visited, parent and queue as the search starts
GridInit(g, startRow, startCol, targetRow, targetCol) ==
    [args    |-> <<startRow, startCol, targetRow, targetCol>>,
     visited |-> SetCell(Filled(Len(g), Len(g[1]), FALSE), startRow, startCol, TRUE),
     parent  |-> Filled(Len(g), Len(g[1]), NoCell),
     queue   |-> << <<startRow, startCol>> >>,
     node    |-> NoCell,
     path    |-> <<>>]

\* the loop body with the new cell put at the front of the queue
GridVisitOnePushFront(g, d, row, col, st) ==
    LET rows   == Len(g)
        cols   == Len(g[1])
        newRow == row + d[1]
        newCol == col + d[2]
    IN  IF /\ newRow >= 0 /\ newRow < rows /\ newCol >= 0 /\ newCol < cols
           /\ ~Cell(st.visited, newRow, newCol)
           /\ Cell(g, newRow, newCol) = 0
        THEN [st EXCEPT !.visited = SetCell(@, newRow, newCol, TRUE),
                        !.parent  = SetCell(@, newRow, newCol, <<row, col>>),
                        !.queue   = << <<newRow, newCol>> >> \o @]
        ELSE st

\* the body of the loop over directions, for the direction d
GridVisitOne(g, d, row, col, st) ==
    LET rows   == Len(g)
        cols   == Len(g[1])
        newRow == row + d[1]
        newCol == col + d[2]
    IN  IF /\ newRow >= 0 /\ newRow < rows /\ newCol >= 0 /\ newCol < cols
           /\ ~Cell(st.visited, newRow, newCol)
           /\ Cell(g, newRow, newCol) = 0
        THEN [st EXCEPT !.visited = SetCell(@, newRow, newCol, TRUE),
                        !.parent  = SetCell(@, newRow, newCol, <<row, col>>),
                        !.queue   = Append(@, <<newRow, newCol>>)]
        ELSE st

RECURSIVE GridVisitDirections(_, _, _, _, _)
GridVisitDirections(g, k, row, col, st) ==
    IF k > Len(directions) THEN st
    ELSE GridVisitDirections(g, k + 1, row, col, GridVisitOne(g, directions[k], row, col, st))

\* one iteration of the path reconstruction loop
GridWalkOne(st) ==
    [st EXCEPT !.path = Append(@, st.node),
               !.node = Cell(st.parent, st.node[1], st.node[2])]

\* the reconstruction loop stopping at the cell whose parent is the sentinel
GridWalkingToStart(st) ==
    /\ st.node[1] # -1 /\ st.node[2] # -1
    /\ Cell(st.parent, st.node[1], st.node[2]) # NoCell

GridWalking(st) == st.node[1] # -1 /\ st.node[2] # -1

RECURSIVE GridWalkParents(_)
GridWalkParents(st) ==
    IF GridWalking(st) THEN GridWalkParents(GridWalkOne(st)) ELSE st

\* queue.front() without queue.pop()
GridDequeueNoPop(st) == st

\* queue.front(), queue.pop()
GridDequeue(st) == [st EXCEPT !.queue = Tail(@)]

\* variant of the target test: the row alone is compared
GridAtTargetRowOnly(st) == Head(st.queue)[1] = st.args[3]

GridAtTarget(st) ==
    Head(st.queue)[1] = st.args[3] /\ Head(st.queue)[2] = st.args[4]

RECURSIVE GridLoop(_, _)
GridLoop(g, st) ==
    IF st.queue = <<>> THEN <<>>
    ELSE IF GridAtTarget(st)
    THEN Reverse(GridWalkParents([GridDequeue(st) EXCEPT
                                     !.node = <<st.args[3], st.args[4]>>]).path)
    ELSE GridLoop(g, GridVisitDirections(g, 1, Head(st.queue)[1], Head(st.queue)[2],
                                         GridDequeue(st)))

gridBFS(g, startRow, startCol, targetRow, targetCol) ==
    LET entry == GridEntry(g, startRow, startCol, targetRow, targetCol)
    IN  IF entry = "empty" \/ entry = "invalid" THEN <<>>
        ELSE IF entry = "same" THEN << <<startRow, startCol>> >>
        ELSE GridLoop(g, GridInit(g, startRow, startCol, targetRow, targetCol))

IdleGridFrame == [args |-> <<0, 0, 0, 0>>, visited |-> <<>>, parent |-> <<>>,
                  queue |-> <<>>, node |-> NoCell, path |-> <<>>]

\* gcall is the gridBFS call that has just returned, as call is for the graph
NoGridCall == [op |-> "none", args |-> <<0, 0, 0, 0>>, retPath |-> <<>>]

ReturnedPath(args, ret) == [op |-> "gridBFS", args |-> args, retPath |-> ret]

\* ---------------------------------------------------------------- actions
IdleFrame == [start |-> 0, visited |-> {}, queue |-> <<>>, result |-> <<>>,
              current |-> 0, i |-> 1]

EdgeEntries(g) ==
    LET RECURSIVE Sum(_)
        Sum(S) == IF S = {} THEN 0
                  ELSE LET v == CHOOSE x \in S : TRUE IN Len(g[v]) + Sum(S \ {v})
    IN  Sum(DOMAIN g)

AddEdgeCalls == IF isDirected THEN EdgeEntries(adjList) ELSE EdgeEntries(adjList) \div 2

\* call is the call that has just returned, with its arguments and its
\* result, until the (single-threaded) caller goes on to its next statement
\* (op: the function; args: its int arguments, or for isConnected and
\* findConnectedComponents the vector getAllVertices gave it; the returned
\* value in the field of its C++ type, the other fields at their defaults)
NoCall == [op |-> "none", args |-> <<>>, retVector |-> <<>>, retInt |-> 0,
           retBool |-> FALSE, retVectors |-> <<>>]

ReturnedVoid(op, args) == [NoCall EXCEPT !.op = op, !.args = args]

ReturnedVector(op, args, ret) == [ReturnedVoid(op, args) EXCEPT !.retVector = ret]

ReturnedInt(op, args, ret) == [ReturnedVoid(op, args) EXCEPT !.retInt = ret]

ReturnedBool(op, args, ret) == [ReturnedVoid(op, args) EXCEPT !.retBool = ret]

ReturnedVectors(op, args, ret) == [ReturnedVoid(op, args) EXCEPT !.retVectors = ret]

Ready == pc = "idle" /\ call.op = "none"

\* a caller that has not called traverse yet
IdleThread == [pc |-> "idle", start |-> 0, frame |-> IdleFrame, ret |-> <<>>]

NoThreads == [t \in Threads |-> IdleThread]

\* the outcome of a container call: the object afterwards, the value returned
\* (0 when there is none) and the exception thrown ("none" when it returns)
Outcome(obj, ret, threw) == [obj |-> obj, ret |-> ret, threw |-> threw]

NoLibCall == [op |-> "none", arg |-> 0, ret |-> 0, threw |-> "none"]

LibCall(op, arg, o) == [op |-> op, arg |-> arg, ret |-> o.ret, threw |-> o.threw]

\* no QueueArray has been constructed
QueueArrayOff ==
    /\ qa = [data |-> <<>>, capacity |-> 0, front_idx |-> 0, rear_idx |-> -1, size |-> 0]
    /\ qaCall = NoLibCall
    /\ qaFifo = <<>>

\* the allocated nodes: no node at all
NoNodes == [a \in {} |-> [data |-> 0, next |-> Null]]

\* no QueueLinked is in use
QueueLinkedOff ==
    /\ ql = [heap |-> NoNodes, front_ptr |-> Null, rear_ptr |-> Null, size |-> 0]
    /\ qlCall = NoLibCall
    /\ qlFifo = <<>>

NoListCall ==
    [op |-> "none", args |-> <<>>, ret |-> 0, retBool |-> FALSE, threw |-> "none"]

\* no LinkedList is in use
LinkedListOff ==
    /\ ll = [heap |-> NoNodes, head |-> Null, tail |-> Null, size |-> 0]
    /\ llCall = NoListCall

NoSortCall == [op |-> "none", input |-> <<>>]

\* no vector is being sorted
SortOff ==
    /\ vec = <<>>
    /\ sortCall = NoSortCall

NoSearchCall == [op |-> "none", ret |-> 0]

NoMatrixCall == [op |-> "none", ret |-> <<0, 0>>]

\* no vector is being searched
SearchOff ==
    /\ searchArr = <<>>
    /\ searchTarget = 0
    /\ searchCall = NoSearchCall
    /\ matrix = <<>>
    /\ matrixCall = NoMatrixCall

\* every part of the library but the one named is out of use
LibOffExcept(part) ==
    /\ part # "QueueArray" => QueueArrayOff
    /\ part # "QueueLinked" => QueueLinkedOff
    /\ part # "LinkedList" => LinkedListOff
    /\ part # "QuickSort" => SortOff
    /\ part # "BinarySearch" => SearchOff

LibOff == LibOffExcept("BFS")

Init ==
    /\ isDirected \in BOOLEAN
    /\ adjList = EmptyAdjList
    /\ call = NoCall
    /\ pc = "idle"
    /\ frame = IdleFrame
    /\ grid = <<>>
    /\ gcall = NoGridCall
    /\ gpc = "off"
    /\ gframe = IdleGridFrame
    /\ threads = NoThreads
    /\ LibOff

AddEdge(from, to) ==
    /\ Ready
    /\ AddEdgeCalls < MaxEdges
    /\ adjList' = addEdge(adjList, isDirected, from, to)
    /\ call' = ReturnedVoid("addEdge", <<from, to>>)
    /\ UNCHANGED <<isDirected, pc, frame, gridVars, concVars, libVars>>

AddVertex(vertex) ==
    /\ Ready
    /\ adjList' = addVertex(adjList, vertex)
    /\ call' = ReturnedVoid("addVertex", <<vertex>>)
    /\ UNCHANGED <<isDirected, pc, frame, gridVars, concVars, libVars>>

\* traverse, one group of statements at a time
TraverseCall(start) ==
    /\ Ready
    /\ IF ~hasVertex(adjList, start)
       THEN /\ call' = ReturnedVector("traverse", <<start>>, <<>>)
            /\ UNCHANGED <<pc, frame>>
       ELSE /\ frame' = TraverseInit(start)
            /\ pc' = "while"
            /\ call' = call
    /\ adjList' = Find(adjList, start)
    /\ UNCHANGED <<isDirected, gridVars, concVars, libVars>>

TraversePop ==
    /\ pc = "while"
    /\ frame.queue # <<>>
    /\ frame' = TraverseDequeue(frame)
    /\ pc' = "for"
    /\ adjList' = Find(adjList, Head(frame.queue))
    /\ UNCHANGED <<isDirected, call, gridVars, concVars, libVars>>

TraverseVisit ==
    /\ pc = "for"
    /\ frame.i <= Len(getNeighbors(adjList, frame.current))
    /\ frame' = [VisitOne(getNeighbors(adjList, frame.current)[frame.i], frame)
                    EXCEPT !.i = frame.i + 1]
    /\ UNCHANGED <<adjList, isDirected, call, pc, gridVars, concVars, libVars>>

TraverseEndFor ==
    /\ pc = "for"
    /\ frame.i > Len(getNeighbors(adjList, frame.current))
    /\ pc' = "while"
    /\ UNCHANGED <<adjList, isDirected, call, frame, gridVars, concVars, libVars>>

TraverseReturn ==
    /\ pc = "while"
    /\ frame.queue = <<>>
    /\ call' = ReturnedVector("traverse", <<frame.start>>, frame.result)
    /\ pc' = "idle"
    /\ frame' = IdleFrame
    /\ UNCHANGED <<adjList, isDirected, gridVars, concVars, libVars>>

\* the caller is done with the returned value
Drop ==
    /\ pc = "idle"
    /\ call.op # "none"
    /\ call' = NoCall
    /\ UNCHANGED <<adjList, isDirected, pc, frame, gridVars, concVars, libVars>>

Query(c) ==
    /\ Ready
    /\ call' = c
    /\ UNCHANGED <<adjList, isDirected, pc, frame, gridVars, concVars, libVars>>

ShortestPathCall(start, target) ==
    Query(ReturnedVector("shortestPath", <<start, target>>,
                         shortestPath(adjList, start, target)))

ShortestDistanceCall(start, target) ==
    Query(ReturnedInt("shortestDistance", <<start, target>>,
                      shortestDistance(adjList, start, target)))

VerticesAtDistanceCall(start, distance) ==
    Query(ReturnedVector("verticesAtDistance", <<start, distance>>,
                         verticesAtDistance(adjList, start, distance)))

IsConnectedCall ==
    /\ Ready
    /\ \E vertices \in getAllVertices(adjList) :
        call' = ReturnedBool("isConnected", vertices, isConnected(adjList, vertices))
    /\ UNCHANGED <<adjList, isDirected, pc, frame, gridVars, concVars, libVars>>

FindConnectedComponentsCall ==
    /\ Ready
    /\ \E vertices \in getAllVertices(adjList) :
        call' = ReturnedVectors("findConnectedComponents", vertices,
                                findConnectedComponents(adjList, vertices))
    /\ UNCHANGED <<adjList, isDirected, pc, frame, gridVars, concVars, libVars>>

\* the Graph's own read accessors
GetNeighborsCall(vertex) ==
    /\ Ready
    /\ call' = ReturnedVector("getNeighbors", <<vertex>>, getNeighbors(adjList, vertex))
    /\ adjList' = Find(adjList, vertex)
    /\ UNCHANGED <<isDirected, pc, frame, gridVars, concVars, libVars>>

HasVertexCall(vertex) ==
    /\ Ready
    /\ call' = ReturnedBool("hasVertex", <<vertex>>, hasVertex(adjList, vertex))
    /\ adjList' = Find(adjList, vertex)
    /\ UNCHANGED <<isDirected, pc, frame, gridVars, concVars, libVars>>

GetVertexCountCall ==
    /\ Ready
    /\ call' = ReturnedInt("getVertexCount", <<>>, getVertexCount(adjList))
    /\ UNCHANGED <<adjList, isDirected, pc, frame, gridVars, concVars, libVars>>

GetAllVerticesCall ==
    /\ Ready
    /\ \E vertices \in getAllVertices(adjList) :
        call' = ReturnedVector("getAllVertices", <<>>, vertices)
    /\ UNCHANGED <<adjList, isDirected, pc, frame, gridVars, concVars, libVars>>

Next ==
    \/ \E from, to \in Ids : AddEdge(from, to)
    \/ \E vertex \in Ids : AddVertex(vertex)
    \/ \E start \in Ids : TraverseCall(start)
    \/ TraversePop
    \/ TraverseVisit
    \/ TraverseEndFor
    \/ TraverseReturn
    \/ Drop
    \/ \E start, target \in Ids : ShortestPathCall(start, target)
    \/ \E start, target \in Ids : ShortestDistanceCall(start, target)
    \/ \E start \in Ids, distance \in DistanceArgs : VerticesAtDistanceCall(start, distance)
    \/ IsConnectedCall
    \/ FindConnectedComponentsCall
    \/ \E vertex \in Ids : GetNeighborsCall(vertex)
    \/ \E vertex \in Ids : HasVertexCall(vertex)
    \/ GetVertexCountCall
    \/ GetAllVerticesCall

Spec == Init /\ [][Next]_vars

\* ---------------------------------------------------------- gridBFS actions
BlockedCells(g) ==
    Cardinality({rc \in (1..Len(g)) \X (1..MaxCols) :
                    rc[2] <= Len(g[rc[1]]) /\ g[rc[1]][rc[2]] = 1})

\* the rectangular 0/1 grids within the bounds, the two empty shapes included
Grids ==
    UNION {{g \in [1..rows -> [1..cols -> {0, 1}]] : BlockedCells(g) <= MaxBlocked} :
              rows \in 0..MaxRows, cols \in 0..MaxCols}

GridReady == gpc = "idle" /\ gcall.op = "none"

InitGrid ==
    /\ grid \in Grids
    /\ gcall = NoGridCall
    /\ gpc = "idle"
    /\ gframe = IdleGridFrame
    /\ isDirected = FALSE
    /\ adjList = EmptyAdjList
    /\ call = NoCall
    /\ pc = "off"
    /\ frame = IdleFrame
    /\ threads = NoThreads
    /\ LibOff

\* gridBFS, one group of statements at a time
GridBFSCall(startRow, startCol, targetRow, targetCol) ==
    /\ GridReady
    /\ LET args  == <<startRow, startCol, targetRow, targetCol>>
           entry == GridEntry(grid, startRow, startCol, targetRow, targetCol)
       IN  IF entry = "search"
           THEN /\ gframe' = GridInit(grid, startRow, startCol, targetRow, targetCol)
                /\ gpc' = "while"
                /\ gcall' = gcall
           ELSE /\ gcall' = ReturnedPath(args, IF entry = "same"
                                               THEN << <<startRow, startCol>> >>
                                               ELSE <<>>)
                /\ UNCHANGED <<gpc, gframe>>
    /\ UNCHANGED <<grid, graphVars, concVars, libVars>>

\* a dequeued cell that is not the target: the loop over the four directions
GridExpand ==
    /\ gpc = "while"
    /\ gframe.queue # <<>>
    /\ ~GridAtTarget(gframe)
    /\ gframe' = GridVisitDirections(grid, 1, Head(gframe.queue)[1], Head(gframe.queue)[2],
                                     GridDequeue(gframe))
    /\ UNCHANGED <<grid, gcall, gpc, graphVars, concVars, libVars>>

\* the target is dequeued: the path reconstruction starts at the target
GridFound ==
    /\ gpc = "while"
    /\ gframe.queue # <<>>
    /\ GridAtTarget(gframe)
    /\ gframe' = [GridDequeue(gframe) EXCEPT !.node = <<gframe.args[3], gframe.args[4]>>]
    /\ gpc' = "walk"
    /\ UNCHANGED <<grid, gcall, graphVars, concVars, libVars>>

GridWalk ==
    /\ gpc = "walk"
    /\ GridWalking(gframe)
    /\ gframe' = GridWalkOne(gframe)
    /\ UNCHANGED <<grid, gcall, gpc, graphVars, concVars, libVars>>

GridReturnPath ==
    /\ gpc = "walk"
    /\ ~GridWalking(gframe)
    /\ gcall' = ReturnedPath(gframe.args, Reverse(gframe.path))
    /\ gpc' = "idle"
    /\ gframe' = IdleGridFrame
    /\ UNCHANGED <<grid, graphVars, concVars, libVars>>

GridReturnNone ==
    /\ gpc = "while"
    /\ gframe.queue = <<>>
    /\ gcall' = ReturnedPath(gframe.args, <<>>)
    /\ gpc' = "idle"
    /\ gframe' = IdleGridFrame
    /\ UNCHANGED <<grid, graphVars, concVars, libVars>>

GridDrop ==
    /\ gpc = "idle"
    /\ gcall.op # "none"
    /\ gcall' = NoGridCall
    /\ UNCHANGED <<grid, gpc, gframe, graphVars, concVars, libVars>>

NextGrid ==
    \/ \E startRow, targetRow \in RowArgs, startCol, targetCol \in ColArgs :
          GridBFSCall(startRow, startCol, targetRow, targetCol)
    \/ GridExpand
    \/ GridFound
    \/ GridWalk
    \/ GridReturnPath
    \/ GridReturnNone
    \/ GridDrop

SpecGrid == InitGrid /\ [][NextGrid]_vars

\* either component on its own: a run exercises the Graph or gridBFS
InitAll == Init \/ InitGrid

NextAll == Next \/ NextGrid

SpecAll == InitAll /\ [][NextAll]_vars

\* verticesAtDistance, one loop iteration at a time
LevelCall(start, distance) ==
    /\ Ready
    /\ IF ~hasVertex(adjList, start) \/ distance < 0
       THEN /\ call' = ReturnedVector("verticesAtDistance", <<start, distance>>, <<>>)
            /\ UNCHANGED <<pc, frame>>
       ELSE IF distance = 0
       THEN /\ call' = ReturnedVector("verticesAtDistance", <<start, distance>>, <<start>>)
            /\ UNCHANGED <<pc, frame>>
       ELSE /\ frame' = LevelFrame(start, distance)
            /\ pc' = "level"
            /\ call' = call
    /\ UNCHANGED <<adjList, isDirected, gridVars, concVars, libVars>>

LevelPop ==
    /\ pc = "level"
    /\ frame.queue # <<>>
    /\ frame' = LevelStep(adjList, frame)
    /\ UNCHANGED <<adjList, isDirected, call, pc, gridVars, concVars, libVars>>

LevelReturn ==
    /\ pc = "level"
    /\ frame.queue = <<>>
    /\ call' = ReturnedVector("verticesAtDistance", <<frame.start, frame.distance>>,
                              frame.result)
    /\ pc' = "idle"
    /\ frame' = IdleFrame
    /\ UNCHANGED <<adjList, isDirected, gridVars, concVars, libVars>>

NextLevel ==
    \/ \E from, to \in Ids : AddEdge(from, to)
    \/ \E vertex \in Ids : AddVertex(vertex)
    \/ Drop
    \/ \E start \in Ids, distance \in DistanceArgs : LevelCall(start, distance)
    \/ LevelPop
    \/ LevelReturn

SpecLevel == Init /\ [][NextLevel]_vars

\* ------------------------------------------------- concurrent traverse calls
\* the graphs that at most k addEdge calls build
RECURSIVE GraphsBuiltBy(_, _)
GraphsBuiltBy(directed, k) ==
    IF k = 0 THEN {EmptyAdjList}
    ELSE LET G == GraphsBuiltBy(directed, k - 1)
         IN  G \cup {addEdge(g, directed, from, to) : g \in G, from \in Ids, to \in Ids}

\* variant of Locals: visited, queue and result declared static, so that every
\* call works on the objects of the first
LocalsShared(ts, t) == ts[1].frame

\* result, visited and queue are automatic variables: each call has its own
Locals(ts, t) == ts[t].frame

InitConc ==
    /\ isDirected \in BOOLEAN
    /\ adjList \in GraphsBuiltBy(isDirected, ConcEdges)
    /\ call = NoCall
    /\ pc = "off"
    /\ frame = IdleFrame
    /\ grid = <<>>
    /\ gcall = NoGridCall
    /\ gpc = "off"
    /\ gframe = IdleGridFrame
    /\ threads = NoThreads
    /\ LibOff

\* no Graph, grid or caller is in use
BfsOff ==
    /\ isDirected = FALSE
    /\ adjList = EmptyAdjList
    /\ call = NoCall
    /\ pc = "off"
    /\ frame = IdleFrame
    /\ grid = <<>>
    /\ gcall = NoGridCall
    /\ gpc = "off"
    /\ gframe = IdleGridFrame
    /\ threads = NoThreads

ThreadCall(t, start) ==
    /\ threads[t].pc = "idle"
    /\ threads' = [threads EXCEPT ![t] =
            IF ~hasVertex(adjList, start)
            THEN [@ EXCEPT !.pc = "done", !.start = start, !.ret = <<>>]
            ELSE [@ EXCEPT !.pc = "while", !.start = start, !.frame = TraverseInit(start)]]
    /\ adjList' = Find(adjList, start)
    /\ UNCHANGED <<isDirected, call, pc, frame, gridVars, libVars>>

ThreadPop(t) ==
    /\ threads[t].pc = "while"
    /\ Locals(threads, t).queue # <<>>
    /\ threads' = [threads EXCEPT ![t].pc = "for",
                                  ![t].frame = TraverseDequeue(Locals(threads, t))]
    /\ adjList' = Find(adjList, Head(Locals(threads, t).queue))
    /\ UNCHANGED <<isDirected, call, pc, frame, gridVars, libVars>>

ThreadVisit(t) ==
    /\ threads[t].pc = "for"
    /\ LET fr   == Locals(threads, t)
           nbrs == getNeighbors(adjList, fr.current)
       IN  /\ fr.i <= Len(nbrs)
           /\ threads' = [threads EXCEPT ![t].frame =
                                [VisitOne(nbrs[fr.i], fr) EXCEPT !.i = fr.i + 1]]
    /\ UNCHANGED <<graphVars, gridVars, libVars>>

ThreadEndFor(t) ==
    /\ threads[t].pc = "for"
    /\ LET fr == Locals(threads, t)
       IN  fr.i > Len(getNeighbors(adjList, fr.current))
    /\ threads' = [threads EXCEPT ![t].pc = "while"]
    /\ UNCHANGED <<graphVars, gridVars, libVars>>

ThreadReturn(t) ==
    /\ threads[t].pc = "while"
    /\ Locals(threads, t).queue = <<>>
    /\ threads' = [threads EXCEPT ![t] =
            [@ EXCEPT !.pc = "done", !.ret = Locals(threads, t).result,
                      !.frame = IdleFrame]]
    /\ UNCHANGED <<graphVars, gridVars, libVars>>

NextConc ==
    \/ \E t \in Threads, start \in Ids : ThreadCall(t, start)
    \/ \E t \in Threads : ThreadPop(t)
    \/ \E t \in Threads : ThreadVisit(t)
    \/ \E t \in Threads : ThreadEndFor(t)
    \/ \E t \in Threads : ThreadReturn(t)

SpecConc == InitConc /\ [][NextConc]_vars

\* a call that has started keeps executing: the caller is single-threaded and
\* nothing in the loops waits on anything
TraverseStep == TraversePop \/ TraverseVisit \/ TraverseEndFor \/ TraverseReturn

GridStep == GridExpand \/ GridFound \/ GridWalk \/ GridReturnPath \/ GridReturnNone

FairSpecAll == SpecAll /\ WF_vars(TraverseStep) /\ WF_vars(GridStep)

\* ------------------------------------------------- graph-theoretic notions
\* (what the properties are stated against; none of this is the code)
NeighborSet(g, u) == SeqSet(getNeighbors(g, u))

\* every id that is a key of adjList or an entry of an adjacency sequence
KnownVertices(g) == DOMAIN g \cup UNION {NeighborSet(g, u) : u \in DOMAIN g}

\* the vertices at most k stored edges away from s
RECURSIVE Within(_, _, _)
Within(g, s, k) ==
    IF k = 0 THEN {s}
    ELSE LET W == Within(g, s, k - 1)
         IN  W \cup UNION {NeighborSet(g, u) : u \in W}

Reachable(g, s) == Within(g, s, Cardinality(KnownVertices(g)))

\* number of edges on a shortest path from s to v, for v reachable from s
Distance(g, s, v) ==
    CHOOSE k \in 0..Cardinality(KnownVertices(g)) :
        /\ v \in Within(g, s, k)
        /\ k > 0 => v \notin Within(g, s, k - 1)

IsPath(g, p) ==
    /\ Len(p) >= 1
    /\ \A i \in 1..(Len(p) - 1) : p[i + 1] \in NeighborSet(g, p[i])

NonDecreasingDistance(g, s, p) ==
    \A i, j \in 1..Len(p) : i < j => Distance(g, s, p[i]) <= Distance(g, s, p[j])

\* ------------------------------------------------------------------ claims

\* C1: whenever target is reachable from start along stored edges,
\* shortestPath(start, target) is a non-empty sequence from start to target
\* whose consecutive elements are joined by stored edges and whose length is
\* minimal, for all ids, -1 included.  (Stated here for start and target
\* that hasVertex accepts, where the early return does not apply.)
C1_ShortestPathIsMinimalPath ==
    (/\ call.op = "shortestPath"
     /\ hasVertex(adjList, call.args[1])
     /\ hasVertex(adjList, call.args[2])
     /\ call.args[2] \in Reachable(adjList, call.args[1]))
    => /\ call.retVector # <<>>
       /\ Head(call.retVector) = call.args[1]
       /\ call.retVector[Len(call.retVector)] = call.args[2]
       /\ IsPath(adjList, call.retVector)
       /\ Len(call.retVector) = Distance(adjList, call.args[1], call.args[2]) + 1

\* C2: for v reachable from s, shortestDistance(s, v) is the length of
\* shortestPath(s, v) minus 1.
C2_DistanceIsPathLengthMinusOne ==
    (/\ call.op = "shortestPath"
     /\ call.args[1] \in KnownVertices(adjList)
     /\ call.args[2] \in Reachable(adjList, call.args[1]))
    => shortestDistance(adjList, call.args[1], call.args[2]) = Len(call.retVector) - 1

\* C3: after addEdge(u, v), on a directed or an undirected graph, u and v
\* both satisfy hasVertex and both are in what getAllVertices returns.
C3_AddEdgeCreatesBothVertices ==
    call.op = "addEdge"
    => /\ hasVertex(adjList, call.args[1])
       /\ hasVertex(adjList, call.args[2])
       /\ \A vertices \in getAllVertices(adjList) :
            {call.args[1], call.args[2]} \subseteq SeqSet(vertices)

\* C4: the components returned by findConnectedComponents are pairwise
\* disjoint and together hold exactly the vertices of getAllVertices.
\* (Stated here for graphs in which every neighbor entry is itself a key of
\* adjList, so that the vertex set is not in question.)
C4_ComponentsPartitionVertices ==
    (call.op = "findConnectedComponents" /\ KnownVertices(adjList) = DOMAIN adjList)
    => /\ \A i, j \in 1..Len(call.retVectors) :
            i # j => SeqSet(call.retVectors[i]) \cap SeqSet(call.retVectors[j]) = {}
       /\ \A i \in 1..Len(call.retVectors) : NoDuplicates(call.retVectors[i])
       /\ UNION {SeqSet(call.retVectors[i]) : i \in 1..Len(call.retVectors)} = SeqSet(call.args)

\* C5: isConnected is true exactly when findConnectedComponents returns one
\* component, or none for a graph without vertices.
C5_ConnectedIffOneComponent ==
    call.op = "isConnected"
    => LET n == Len(findConnectedComponents(adjList, call.args))
       IN  call.retBool <=> (n = 1 \/ (n = 0 /\ getVertexCount(adjList) = 0))

\* C6: isConnected is true exactly when the traversal from the first
\* enumerated vertex visits every vertex of getAllVertices (as sets), and is
\* true for a graph without vertices.
C6_ConnectedIffTraverseCoversAll ==
    call.op = "isConnected"
    => (call.retBool <=>
          \/ call.args = <<>>
          \/ SeqSet(call.args) \subseteq SeqSet(traverse(adjList, call.args[1])))

C8_TraverseIsUnionOfLevels ==
    (call.op = "traverse" /\ hasVertex(adjList, call.args[1]))
    => LET Level(d) == SeqSet(verticesAtDistance(adjList, call.args[1], d))
           Ds == 0..getVertexCount(adjList)
       IN  /\ SeqSet(call.retVector) = UNION {Level(d) : d \in Ds}
           /\ \A d1, d2 \in Ds : d1 # d2 => Level(d1) \cap Level(d2) = {}

\* a traverse that returned vertices of three different levels
C8_Witness ==
    /\ call.op = "traverse"
    /\ hasVertex(adjList, call.args[1])
    /\ verticesAtDistance(adjList, call.args[1], 1) # <<>>
    /\ verticesAtDistance(adjList, call.args[1], 2) # <<>>
    /\ Len(call.retVector) >= 3

\* C9: at every step of the traverse loop the visited set is exactly the
\* set of vertices pushed so far (result followed by queue), no vertex is
\* pushed twice, the push order is non-decreasing in the true distance from
\* start, and the distances of the vertices in the queue differ by at most 1.
C9_FrontierDiscipline ==
    /\ pc # "idle" =>
        LET pushed == frame.result \o frame.queue
            D(v) == Distance(adjList, frame.start, v)
        IN  /\ frame.visited = SeqSet(pushed)
            /\ NoDuplicates(pushed)
            /\ SeqSet(pushed) \subseteq Reachable(adjList, frame.start)
            /\ NonDecreasingDistance(adjList, frame.start, pushed)
            /\ \A u, v \in SeqSet(frame.queue) : D(u) - D(v) <= 1
    /\ (call.op = "traverse" /\ hasVertex(adjList, call.args[1])) =>
        NonDecreasingDistance(adjList, call.args[1], call.retVector)

\* inside the neighbor loop, with vertices of two different distances
\* waiting in the queue
C9_Witness ==
    /\ pc = "for"
    /\ Len(frame.result) >= 2
    /\ \E u, v \in SeqSet(frame.queue) :
        Distance(adjList, frame.start, u) # Distance(adjList, frame.start, v)

Occurrences(s, x) == Cardinality({i \in DOMAIN s : s[i] = x})

\* C11: in an undirected graph every entry v of adjacency(u) has an entry u in
\* adjacency(v), and for u # v the number of occurrences of v in adjacency(u)
\* equals the number of occurrences of u in adjacency(v)
C11_UndirectedSymmetry ==
    ~isDirected =>
        \A u, v \in KnownVertices(adjList) :
            /\ v \in NeighborSet(adjList, u) => u \in NeighborSet(adjList, v)
            /\ u # v => Occurrences(getNeighbors(adjList, u), v)
                            = Occurrences(getNeighbors(adjList, v), u)

\* an undirected graph with a repeated edge and a second edge, after an addEdge
C11_Witness ==
    /\ ~isDirected
    /\ call.op = "addEdge"
    /\ \E u, v, w \in DOMAIN adjList :
        /\ u # v /\ w # v /\ w # u
        /\ Occurrences(adjList[u], v) = 2
        /\ Occurrences(adjList[u], w) = 1

InGrid(g, row, col) ==
    /\ Len(g) > 0
    /\ row \in 0..(Len(g) - 1)
    /\ col \in 0..(Len(g[1]) - 1)

\* C17: when start is not a vertex, traverse, verticesAtDistance and
\* shortestPath return the empty sequence and shortestDistance returns -1;
\* shortestPath and shortestDistance do the same when target is not a vertex,
\* also when start = target
C17_AbsentVertexSentinels ==
    /\ (call.op = "traverse" /\ ~hasVertex(adjList, call.args[1]))
            => call.retVector = <<>>
    /\ (call.op = "verticesAtDistance" /\ ~hasVertex(adjList, call.args[1]))
            => call.retVector = <<>>
    /\ (/\ call.op = "shortestPath"
        /\ ~hasVertex(adjList, call.args[1]) \/ ~hasVertex(adjList, call.args[2]))
            => call.retVector = <<>>
    /\ (/\ call.op = "shortestDistance"
        /\ ~hasVertex(adjList, call.args[1]) \/ ~hasVertex(adjList, call.args[2]))
            => call.retInt = -1

\* shortestDistance(x, x) has returned on a graph that has vertices but not x
C17_Witness ==
    /\ call.op = "shortestDistance"
    /\ call.args[1] = call.args[2]
    /\ call.args[1] \notin KnownVertices(adjList)
    /\ DOMAIN adjList # {}
    /\ call.retInt = -1

\* C18: when start = target and that vertex exists in the graph (created by
\* addVertex or as an endpoint of addEdge), shortestPath returns <<start>>,
\* shortestDistance returns 0 and verticesAtDistance(start, 0) returns
\* <<start>>; when start and target are the same in-bounds passable cell,
\* gridBFS returns the one-cell path
C18_SameStartAndTarget ==
    /\ (/\ call.op = "shortestPath"
        /\ call.args[1] = call.args[2]
        /\ call.args[1] \in KnownVertices(adjList))
            => call.retVector = <<call.args[1]>>
    /\ (/\ call.op = "shortestDistance"
        /\ call.args[1] = call.args[2]
        /\ call.args[1] \in KnownVertices(adjList))
            => call.retInt = 0
    /\ (/\ call.op = "verticesAtDistance"
        /\ call.args[2] = 0
        /\ call.args[1] \in KnownVertices(adjList))
            => call.retVector = <<call.args[1]>>
    /\ (/\ gcall.op = "gridBFS"
        /\ gcall.args[1] = gcall.args[3] /\ gcall.args[2] = gcall.args[4]
        /\ InGrid(grid, gcall.args[1], gcall.args[2])
        /\ grid[gcall.args[1] + 1][gcall.args[2] + 1] = 0)
            => gcall.retPath = << <<gcall.args[1], gcall.args[2]>> >>

FirstIndex(s, x) == CHOOSE i \in DOMAIN s : s[i] = x /\ \A j \in 1..(i - 1) : s[j] # x

\* the place in the output out of the vertex that discovered out[k]: the first
\* output vertex that has out[k] in its adjacency sequence
DiscovererIndex(g, out, k) ==
    CHOOSE d \in DOMAIN out :
        /\ out[k] \in NeighborSet(g, out[d])
        /\ \A e \in 1..(d - 1) : out[k] \notin NeighborSet(g, out[e])

\* C20: in the output of traverse, vertices discovered from the same vertex
\* are in the order of their first occurrence in its adjacency sequence,
\* vertices discovered from an earlier output vertex come before those
\* discovered from a later one, and the output depends on nothing but the
\* stored adjacency sequences and start
C20_OutputFollowsInsertionOrder ==
    call.op = "traverse" =>
        LET out == call.retVector
        IN  /\ \A i, j \in 2..Len(out) :
                LET di == DiscovererIndex(adjList, out, i)
                    dj == DiscovererIndex(adjList, out, j)
                IN  /\ di < dj => i < j
                    /\ (di = dj /\ i < j) =>
                            FirstIndex(adjList[out[di]], out[i])
                                < FirstIndex(adjList[out[di]], out[j])
            /\ out = traverse(adjList, call.args[1])

\* traverse has returned four vertices: two discovered from the start and one
\* discovered from the first of those two
C20_Witness ==
    /\ call.op = "traverse"
    /\ Len(call.retVector) = 4
    /\ DiscovererIndex(adjList, call.retVector, 2) = 1
    /\ DiscovererIndex(adjList, call.retVector, 3) = 1
    /\ DiscovererIndex(adjList, call.retVector, 4) = 2

\* ------------------------------------------------------ gridBFS properties
ScenarioBGrid == << <<0, 0, 0>>, <<1, 1, 0>>, <<0, 0, 0>> >>

ScenarioBCall ==
    /\ grid = ScenarioBGrid
    /\ gcall.op = "gridBFS"
    /\ gcall.args = <<0, 0, 2, 0>>

ThroughColumn(path, col) == \E i \in DOMAIN path : path[i][2] = col

\* C13 as stated: on the grid [[0,0,0],[1,1,0],[0,0,0]] with start (0,0) and
\* target (2,0), gridBFS returns a path through column 2 that has 5 cells
C13_ScenarioBFiveCells ==
    ScenarioBCall => ThroughColumn(gcall.retPath, 2) /\ Len(gcall.retPath) = 5

\* C13 amended: on the grid [[0,0,0],[1,1,0],[0,0,0]] with start (0,0) and
\* target (2,0), gridBFS returns a path through column 2 that has 7 cells
C13_ScenarioBSevenCells ==
    ScenarioBCall =>
        /\ ThroughColumn(gcall.retPath, 2)
        /\ Len(gcall.retPath) = 7
        /\ gcall.retPath = << <<0, 0>>, <<0, 1>>, <<0, 2>>, <<1, 2>>,
                              <<2, 2>>, <<2, 1>>, <<2, 0>> >>

C13_Witness == ScenarioBCall /\ gcall.retPath # <<>>

Abs(x) == IF x < 0 THEN -x ELSE x

\* C14: on a rectangular grid with no blocked cell, for in-bounds start and
\* target, gridBFS returns a path of 1 + |startRow - targetRow| +
\* |startCol - targetCol| cells
C14_OpenGridManhattan ==
    (/\ gcall.op = "gridBFS"
     /\ BlockedCells(grid) = 0
     /\ InGrid(grid, gcall.args[1], gcall.args[2])
     /\ InGrid(grid, gcall.args[3], gcall.args[4]))
    => Len(gcall.retPath) = 1 + Abs(gcall.args[1] - gcall.args[3])
                              + Abs(gcall.args[2] - gcall.args[4])

\* a search across an open grid whose target is up and to the left of the start
C14_Witness ==
    /\ gcall.op = "gridBFS"
    /\ BlockedCells(grid) = 0
    /\ InGrid(grid, gcall.args[1], gcall.args[2])
    /\ InGrid(grid, gcall.args[3], gcall.args[4])
    /\ gcall.args[3] < gcall.args[1] - 1
    /\ gcall.args[4] < gcall.args[2]
    /\ Len(gcall.retPath) = 5

\* C15: for every grid and every pair of cells a, b, gridBFS(grid, a, b) and
\* gridBFS(grid, b, a) return paths with the same number of cells (both empty
\* when there is no path)
C15_SwapSameLength ==
    gcall.op = "gridBFS" =>
        Len(gcall.retPath) = Len(gridBFS(grid, gcall.args[3], gcall.args[4],
                                         gcall.args[1], gcall.args[2]))

\* a path around an obstacle, whose reverse call finds one of the same length
C15_Witness ==
    /\ gcall.op = "gridBFS"
    /\ BlockedCells(grid) > 0
    /\ Len(gcall.retPath) > 1 + Abs(gcall.args[1] - gcall.args[3])
                              + Abs(gcall.args[2] - gcall.args[4])
    /\ Len(gridBFS(grid, gcall.args[3], gcall.args[4], gcall.args[1], gcall.args[2]))
            = Len(gcall.retPath)

\* the inputs the claim says are turned away: an empty grid, a start or a
\* target out of bounds, a blocked start or target
GridRejects(g, args) ==
    \/ Len(g) = 0
    \/ Len(g[1]) = 0
    \/ ~InGrid(g, args[1], args[2])
    \/ ~InGrid(g, args[3], args[4])
    \/ g[args[1] + 1][args[2] + 1] = 1
    \/ g[args[3] + 1][args[4] + 1] = 1

\* C16: gridBFS returns the empty path, without starting the search, when the
\* grid is empty, the start or the target is out of bounds, or the start or
\* the target is blocked, also when start = target
C16_RejectsBeforeExploring ==
    [][/\ (gcall'.op = "gridBFS" /\ GridRejects(grid, gcall'.args)) =>
              /\ gcall'.retPath = <<>>
              /\ gcall.op = "none" => gpc = "idle"
       /\ (gpc = "idle" /\ gpc' = "while") => ~GridRejects(grid, gframe'.args)]_vars

\* start = target on a blocked in-bounds cell: the empty path is returned
C16_Witness ==
    /\ gcall.op = "gridBFS"
    /\ gcall.args[1] = gcall.args[3] /\ gcall.args[2] = gcall.args[4]
    /\ InGrid(grid, gcall.args[1], gcall.args[2])
    /\ grid[gcall.args[1] + 1][gcall.args[2] + 1] = 1
    /\ gcall.retPath = <<>>

\* the four moves between 4-connected cells
Offsets == {<<-1, 0>>, <<1, 0>>, <<0, -1>>, <<0, 1>>}

Passable(g, c) == InGrid(g, c[1], c[2]) /\ Cell(g, c[1], c[2]) = 0

\* the passable cells at most k moves from the cells of S
RECURSIVE GridWithin(_, _, _)
GridWithin(g, S, k) ==
    IF k = 0 THEN S
    ELSE LET W == GridWithin(g, S, k - 1)
         IN  W \cup {c \in {<<w[1] + d[1], w[2] + d[2]>> : w \in W, d \in Offsets} :
                        Passable(g, c)}

GridCells(g) == IF Len(g) = 0 THEN 0 ELSE Len(g) * Len(g[1])

GridConnected(g, s, t) == t \in GridWithin(g, {s}, GridCells(g))

\* the least number of moves from s to t, for t connected to s
GridDistance(g, s, t) ==
    CHOOSE k \in 0..GridCells(g) :
        /\ t \in GridWithin(g, {s}, k)
        /\ k > 0 => t \notin GridWithin(g, {s}, k - 1)

\* C33: for in-bounds passable start and target, a non-empty gridBFS result
\* starts at the start, ends at the target, has only passable in-bounds cells,
\* moves by one of the four offsets between consecutive cells, repeats no cell
\* and has the least possible number of cells; the result is empty exactly
\* when the target is not 4-connected to the start through passable cells
C33_GridPathValidAndMinimal ==
    (gcall.op = "gridBFS" /\ ~GridRejects(grid, gcall.args)) =>
        LET p == gcall.retPath
            s == <<gcall.args[1], gcall.args[2]>>
            t == <<gcall.args[3], gcall.args[4]>>
        IN  /\ p = <<>> <=> ~GridConnected(grid, s, t)
            /\ p # <<>> =>
                  /\ p[1] = s
                  /\ p[Len(p)] = t
                  /\ \A i \in 1..Len(p) : Passable(grid, p[i])
                  /\ \A i \in 1..(Len(p) - 1) :
                        <<p[i + 1][1] - p[i][1], p[i + 1][2] - p[i][2]>> \in Offsets
                  /\ NoDuplicates(p)
                  /\ Len(p) = 1 + GridDistance(grid, s, t)

\* a path of seven cells that winds around two obstacles
C33_Witness ==
    /\ gcall.op = "gridBFS"
    /\ BlockedCells(grid) = 2
    /\ Len(gcall.retPath) = 7
    /\ gcall.retPath[1] = <<gcall.args[1], gcall.args[2]>>
    /\ gcall.retPath[7] = <<gcall.args[3], gcall.args[4]>>

\* C19: every query terminates and returns a value: a traverse or a gridBFS that
\* has started returns (for gridBFS the walk back along the parent links
\* included), and every other query has returned a value of its result type
C19_QueriesTerminate ==
    /\ (pc \in {"while", "for"}) ~> (pc = "idle" /\ call.op = "traverse")
    /\ (gpc \in {"while", "walk"}) ~> (gpc = "idle" /\ gcall.op = "gridBFS")
    /\ [](/\ call.op = "shortestPath" =>
                /\ call.retVector \in Seq(Ids)
                /\ Len(call.retVector) <= Cardinality(KnownVertices(adjList))
          /\ call.op = "shortestDistance" =>
                call.retInt \in -1..Cardinality(KnownVertices(adjList))
          /\ call.op = "verticesAtDistance" => call.retVector \in Seq(Ids)
          /\ call.op = "isConnected" => call.retBool \in BOOLEAN
          /\ call.op = "findConnectedComponents" =>
                \A i \in DOMAIN call.retVectors : call.retVectors[i] \in Seq(Ids))

\* a traverse has returned on a graph with a self-loop, a repeated edge and
\* the negative id
C19_Witness ==
    /\ call.op = "traverse"
    /\ pc = "idle"
    /\ -1 \in SeqSet(call.retVector)
    /\ Len(call.retVector) >= 2
    /\ \E u \in DOMAIN adjList :
        /\ u \in NeighborSet(adjList, u)
        /\ \E v \in DOMAIN adjList : v # u /\ Occurrences(adjList[u], v) >= 2

\* the elements of s that are in S, in the order of s
RECURSIVE Restrict(_, _)
Restrict(s, S) ==
    IF s = <<>> THEN <<>>
    ELSE IF Head(s) \in S THEN <<Head(s)>> \o Restrict(Tail(s), S)
    ELSE Restrict(Tail(s), S)

\* the vertices exactly k stored edges away from s
Level(g, s, k) == IF k = 0 THEN {s} ELSE Within(g, s, k) \ Within(g, s, k - 1)

\* C22: for a start that is a vertex and d >= 1, verticesAtDistance returns
\* exactly the vertices at shortest distance d, each once, in discovery order;
\* it returns the empty sequence for d < 0; during the run every frontier
\* entry carries its true distance, none of them exceeds d, and dequeuing an
\* entry at distance d or more enumerates no neighbors
C22_LevelSetAndPruning ==
    [][/\ (call'.op = "verticesAtDistance" /\ call'.args[2] < 0)
            => call'.retVector = <<>>
       /\ (/\ call'.op = "verticesAtDistance"
           /\ hasVertex(adjList, call'.args[1])
           /\ call'.args[2] >= 1)
            => call'.retVector =
                    Restrict(traverse(adjList, call'.args[1]),
                             Level(adjList, call'.args[1], call'.args[2]))
       /\ pc' = "level"
            => /\ \A i \in DOMAIN frame'.queue :
                    /\ frame'.queue[i][2] <= frame'.distance
                    /\ frame'.queue[i][1] \in
                            Level(adjList, frame'.start, frame'.queue[i][2])
               /\ frame'.visited \subseteq Within(adjList, frame'.start, frame'.distance)
       /\ (pc = "level" /\ pc' = "level" /\ Head(frame.queue)[2] >= frame.distance)
            => /\ frame'.visited = frame.visited
               /\ frame'.queue = Tail(frame.queue)]_vars

\* a call with d = 2 has returned a vertex although the graph has a vertex
\* three edges away from start
C22_Witness ==
    /\ call.op = "verticesAtDistance"
    /\ call.args[2] = 2
    /\ Len(call.retVector) = 1
    /\ Level(adjList, call.args[1], 3) # {}

\* C23: traverse calls that run concurrently, interleaved statement group by
\* statement group, on a graph no one changes each return what the call
\* returns when it runs alone, and the shared adjacency mapping is never
\* written
C23_ConcurrentCallsAsAlone ==
    [][/\ \A t \in Threads :
            threads'[t].pc = "done" =>
                threads'[t].ret = traverse(adjList, threads'[t].start)
       /\ adjList' = adjList]_vars

\* one call has returned three vertices while another call, from a different
\* start, is inside its loop
C23_Witness ==
    \E t, u \in Threads :
        /\ threads[t].pc = "done"
        /\ Len(threads[t].ret) = 3
        /\ threads[u].pc = "for"
        /\ threads[u].start # threads[t].start
        /\ Len(threads[u].frame.result) = 2

\* ------------------------------------------------------- frame properties
QueryOps == {"getNeighbors", "hasVertex", "getAllVertices", "getVertexCount",
             "traverse", "shortestPath", "shortestDistance", "verticesAtDistance",
             "isConnected", "findConnectedComponents"}

\* C21: no query changes the graph: over every step in which a query returns
\* and every step of a running traverse, the adjacency mapping and the vertex
\* set stay what they were, and getNeighbors of an absent vertex returns the
\* empty sequence without creating the vertex
C21_QueriesLeaveGraphUnchanged ==
    [][/\ ((call.op = "none" /\ call'.op \in QueryOps) \/ pc # "idle" \/ pc' # "idle")
            => /\ adjList' = adjList
               /\ DOMAIN adjList' = DOMAIN adjList
       /\ (call.op = "none" /\ call'.op = "getNeighbors"
                /\ ~hasVertex(adjList, call'.args[1]))
            => /\ call'.retVector = <<>>
               /\ ~hasVertex(adjList', call'.args[1])]_vars

\* getNeighbors has returned for an edge destination that is no key of adjList
C21_Witness ==
    /\ call.op = "getNeighbors"
    /\ call.args[1] \in KnownVertices(adjList)
    /\ ~hasVertex(adjList, call.args[1])
    /\ call.retVector = <<>>

\* ============================================================ QueueArray
\* src/cpp/data_structures/queue_array.h: a circular buffer data[0..capacity-1]
\* with the live window starting at front_idx and ending at rear_idx

\* new T[capacity] leaves the slots with whatever the allocation holds
QueueArray(cap, slots) ==
    [data |-> slots, capacity |-> cap, front_idx |-> 0, rear_idx |-> -1, size |-> 0]

QueueArray_isEmpty(q) == q.size = 0

QueueArray_isFull(q) == q.size = q.capacity

QueueArray_getSize(q) == Outcome(q, q.size, "none")

\* variant of enqueue: rear_idx advanced before the overflow test
QueueArray_enqueueAdvanceFirst(q, item) ==
    LET r == (q.rear_idx + 1) % q.capacity
    IN  IF QueueArray_isFull(q)
        THEN Outcome([q EXCEPT !.rear_idx = r], 0, "overflow_error")
        ELSE Outcome([q EXCEPT !.rear_idx = r, !.data[r] = item, !.size = @ + 1],
                     0, "none")

QueueArray_enqueue(q, item) ==
    IF QueueArray_isFull(q)
    THEN Outcome(q, 0, "overflow_error")
    ELSE LET r == (q.rear_idx + 1) % q.capacity
         IN  Outcome([q EXCEPT !.rear_idx = r, !.data[r] = item, !.size = @ + 1],
                     0, "none")

QueueArray_dequeue(q) ==
    IF QueueArray_isEmpty(q)
    THEN Outcome(q, 0, "underflow_error")
    ELSE Outcome([q EXCEPT !.front_idx = (@ + 1) % q.capacity, !.size = @ - 1],
                 q.data[q.front_idx], "none")

QueueArray_front(q) ==
    IF QueueArray_isEmpty(q)
    THEN Outcome(q, 0, "underflow_error")
    ELSE Outcome(q, q.data[q.front_idx], "none")

QueueArray_rear(q) ==
    IF QueueArray_isEmpty(q)
    THEN Outcome(q, 0, "underflow_error")
    ELSE Outcome(q, q.data[q.rear_idx], "none")

\* variant of clear: rear_idx left where it is
QueueArray_clearKeepRear(q) ==
    Outcome([q EXCEPT !.front_idx = 0, !.size = 0], 0, "none")

QueueArray_clear(q) ==
    Outcome([q EXCEPT !.front_idx = 0, !.rear_idx = -1, !.size = 0], 0, "none")

InitQueueArray ==
    /\ BfsOff
    /\ \E cap \in 1..MaxCapacity :
          \E slots \in [0..(cap - 1) -> Values] : qa = QueueArray(cap, slots)
    /\ qaCall = NoLibCall
    /\ qaFifo = <<>>
    /\ LibOffExcept("QueueArray")

\* a call on the queue; the elements in flight change when it returns normally
QaCall(op, arg, o, fifo) ==
    /\ qaCall.op = "none"
    /\ qa' = o.obj
    /\ qaCall' = LibCall(op, arg, o)
    /\ qaFifo' = IF o.threw = "none" THEN fifo ELSE qaFifo
    /\ UNCHANGED <<graphVars, gridVars, concVars, queueLinkedVars, linkedListVars, sortVars, searchVars>>

QaEnqueue(item) == QaCall("enqueue", item, QueueArray_enqueue(qa, item), Append(qaFifo, item))

QaDequeue == QaCall("dequeue", 0, QueueArray_dequeue(qa), Tail(qaFifo))

QaFront == QaCall("front", 0, QueueArray_front(qa), qaFifo)

QaRear == QaCall("rear", 0, QueueArray_rear(qa), qaFifo)

QaGetSize == QaCall("getSize", 0, QueueArray_getSize(qa), qaFifo)

QaClear == QaCall("clear", 0, QueueArray_clear(qa), <<>>)

\* the caller takes the outcome and is ready for the next call
QaDrop ==
    /\ qaCall.op # "none"
    /\ qaCall' = NoLibCall
    /\ UNCHANGED <<graphVars, gridVars, concVars, qa, qaFifo, queueLinkedVars, linkedListVars, sortVars, searchVars>>

NextQueueArray ==
    \/ \E item \in Values : QaEnqueue(item)
    \/ QaDequeue
    \/ QaFront
    \/ QaRear
    \/ QaGetSize
    \/ QaClear
    \/ QaDrop

SpecQueueArray == InitQueueArray /\ [][NextQueueArray]_vars

\* the call that this step makes
QaCalls(op) == qaCall.op = "none" /\ qaCall'.op = op

\* C24: as long as there is room, enqueue succeeds; dequeue and front return
\* the oldest element enqueued since the last clear and not yet dequeued, rear
\* the newest, and getSize their number, wherever front_idx and rear_idx stand
C24_Fifo ==
    [][/\ QaCalls("enqueue") /\ Len(qaFifo) < qa.capacity => qaCall'.threw = "none"
       /\ QaCalls("dequeue") /\ qaFifo # <<>> =>
              qaCall'.threw = "none" /\ qaCall'.ret = Head(qaFifo)
       /\ QaCalls("front") /\ qaFifo # <<>> =>
              qaCall'.threw = "none" /\ qaCall'.ret = Head(qaFifo)
       /\ QaCalls("rear") /\ qaFifo # <<>> =>
              qaCall'.threw = "none" /\ qaCall'.ret = qaFifo[Len(qaFifo)]
       /\ QaCalls("getSize") => qaCall'.ret = Len(qaFifo)]_vars

\* a dequeue has returned from a queue of capacity 3 whose two remaining
\* elements sit at the end and at the start of the array
C24_Witness ==
    /\ qaCall.op = "dequeue"
    /\ qaCall.threw = "none"
    /\ qa.capacity = 3
    /\ qa.size = 2
    /\ qa.rear_idx < qa.front_idx

\* C25: enqueue on a queue with size = capacity raises overflow_error, and
\* dequeue, front and rear on an empty queue raise underflow_error; the object
\* (size, front_idx, rear_idx, data) is the same afterwards
C25_ErrorsLeaveQueue ==
    [][/\ QaCalls("enqueue") /\ qa.size = qa.capacity =>
              qaCall'.threw = "overflow_error" /\ qa' = qa
       /\ (QaCalls("dequeue") \/ QaCalls("front") \/ QaCalls("rear")) /\ qaFifo = <<>> =>
              qaCall'.threw = "underflow_error" /\ qa' = qa]_vars

\* enqueue was refused on a full queue whose window has wrapped
C25_Witness ==
    /\ qaCall.op = "enqueue"
    /\ qaCall.threw = "overflow_error"
    /\ qa.capacity = 3
    /\ qa.front_idx = 2
    /\ qaFifo = <<1, 2, 1>>

\* ============================================================ QueueLinked
\* src/cpp/data_structures/queue_linked.h: a singly linked chain of nodes from
\* front_ptr to rear_ptr

\* new Node(value) at the address the allocator hands out
NewNode(heap, addr, value) ==
    [a \in DOMAIN heap \cup {addr} |->
        IF a = addr THEN [data |-> value, next |-> Null] ELSE heap[a]]

\* delete of the node at addr
Delete(heap, addr) == [a \in DOMAIN heap \ {addr} |-> heap[a]]

QueueLinked == [heap |-> NoNodes, front_ptr |-> Null, rear_ptr |-> Null, size |-> 0]

QueueLinked_isEmpty(q) == q.front_ptr = Null

QueueLinked_getSize(q) == Outcome(q, q.size, "none")

QueueLinked_enqueue(q, item, newNode) ==
    LET heap == NewNode(q.heap, newNode, item)
    IN  IF QueueLinked_isEmpty(q)
        THEN Outcome([q EXCEPT !.heap = heap, !.front_ptr = newNode,
                               !.rear_ptr = newNode, !.size = @ + 1], 0, "none")
        ELSE Outcome([q EXCEPT !.heap = [heap EXCEPT ![q.rear_ptr].next = newNode],
                               !.rear_ptr = newNode, !.size = @ + 1], 0, "none")

\* variant of dequeue: rear_ptr kept when the last node goes
QueueLinked_dequeueKeepRear(q) ==
    IF QueueLinked_isEmpty(q)
    THEN Outcome(q, 0, "underflow_error")
    ELSE LET temp == q.front_ptr
         IN  Outcome([q EXCEPT !.heap = Delete(q.heap, temp),
                               !.front_ptr = q.heap[temp].next,
                               !.size = @ - 1],
                     q.heap[temp].data, "none")

QueueLinked_dequeue(q) ==
    IF QueueLinked_isEmpty(q)
    THEN Outcome(q, 0, "underflow_error")
    ELSE LET temp == q.front_ptr
             next == q.heap[temp].next
         IN  Outcome([q EXCEPT !.heap = Delete(q.heap, temp),
                               !.front_ptr = next,
                               !.rear_ptr = IF next = Null THEN Null ELSE @,
                               !.size = @ - 1],
                     q.heap[temp].data, "none")

QueueLinked_front(q) ==
    IF QueueLinked_isEmpty(q)
    THEN Outcome(q, 0, "underflow_error")
    ELSE Outcome(q, q.heap[q.front_ptr].data, "none")

QueueLinked_rear(q) ==
    IF QueueLinked_isEmpty(q)
    THEN Outcome(q, 0, "underflow_error")
    ELSE Outcome(q, q.heap[q.rear_ptr].data, "none")

RECURSIVE QueueLinked_clear(_)
QueueLinked_clear(q) ==
    IF QueueLinked_isEmpty(q)
    THEN Outcome(q, 0, "none")
    ELSE QueueLinked_clear(QueueLinked_dequeue(q).obj)

InitQueueLinked ==
    /\ BfsOff
    /\ LibOffExcept("QueueLinked")
    /\ ql = QueueLinked
    /\ qlCall = NoLibCall
    /\ qlFifo = <<>>

QlCall(op, arg, o, fifo) ==
    /\ qlCall.op = "none"
    /\ ql' = o.obj
    /\ qlCall' = LibCall(op, arg, o)
    /\ qlFifo' = IF o.threw = "none" THEN fifo ELSE qlFifo
    /\ UNCHANGED <<graphVars, gridVars, concVars, queueArrayVars, linkedListVars, sortVars, searchVars>>

QlEnqueue(item) ==
    \E newNode \in Addrs \ DOMAIN ql.heap :
        QlCall("enqueue", item, QueueLinked_enqueue(ql, item, newNode), Append(qlFifo, item))

QlDequeue == QlCall("dequeue", 0, QueueLinked_dequeue(ql), Tail(qlFifo))

QlFront == QlCall("front", 0, QueueLinked_front(ql), qlFifo)

QlRear == QlCall("rear", 0, QueueLinked_rear(ql), qlFifo)

QlGetSize == QlCall("getSize", 0, QueueLinked_getSize(ql), qlFifo)

QlClear == QlCall("clear", 0, QueueLinked_clear(ql), <<>>)

QlDrop ==
    /\ qlCall.op # "none"
    /\ qlCall' = NoLibCall
    /\ UNCHANGED <<graphVars, gridVars, concVars, queueArrayVars, linkedListVars, sortVars, searchVars, ql, qlFifo>>

NextQueueLinked ==
    \/ \E item \in Values : QlEnqueue(item)
    \/ QlDequeue
    \/ QlFront
    \/ QlRear
    \/ QlGetSize
    \/ QlClear
    \/ QlDrop

SpecQueueLinked == InitQueueLinked /\ [][NextQueueLinked]_vars

QlCalls(op) == qlCall.op = "none" /\ qlCall'.op = op

\* C26: dequeue on a non-empty queue returns the oldest element enqueued and
\* not yet dequeued; dequeue, front and rear on an empty queue raise
\* underflow_error and leave the queue as it was; and always front_ptr is null
\* exactly when size is 0 and exactly when rear_ptr is null
C26_LinkedFifoAndEmptiness ==
    /\ [](/\ QueueLinked_isEmpty(ql) <=> ql.size = 0
          /\ ql.size = 0 <=> ql.rear_ptr = Null)
    /\ [][/\ QlCalls("dequeue") /\ qlFifo # <<>> =>
                 qlCall'.threw = "none" /\ qlCall'.ret = Head(qlFifo)
          /\ (QlCalls("dequeue") \/ QlCalls("front") \/ QlCalls("rear")) /\ qlFifo = <<>> =>
                 qlCall'.threw = "underflow_error" /\ ql' = ql]_vars

\* a dequeue has returned 1 from a queue of three nodes and left 2 and 1
C26_Witness ==
    /\ qlCall.op = "dequeue"
    /\ qlCall.threw = "none"
    /\ qlCall.ret = 1
    /\ qlFifo = <<2, 1>>
    /\ ql.size = 2

\* ============================================================= LinkedList
\* src/cpp/data_structures/linked_list.h: a singly linked chain of nodes from
\* head to tail; indices are size_t, counted from 0

LinkedList == [heap |-> NoNodes, head |-> Null, tail |-> Null, size |-> 0]

LinkedList_isEmpty(l) == l.size = 0

\* current = current->next, steps times
RECURSIVE Walk(_, _, _)
Walk(heap, current, steps) ==
    IF steps = 0 THEN current ELSE Walk(heap, heap[current].next, steps - 1)

\* current = current->next until current->next is target
RECURSIVE WalkUntilNext(_, _, _)
WalkUntilNext(heap, current, target) ==
    IF heap[current].next = target THEN current
    ELSE WalkUntilNext(heap, heap[current].next, target)

LinkedList_pushFront(l, value, newNode) ==
    LET heap == NewNode(l.heap, newNode, value)
    IN  IF LinkedList_isEmpty(l)
        THEN Outcome([l EXCEPT !.heap = heap, !.head = newNode, !.tail = newNode,
                               !.size = @ + 1], 0, "none")
        ELSE Outcome([l EXCEPT !.heap = [heap EXCEPT ![newNode].next = l.head],
                               !.head = newNode, !.size = @ + 1], 0, "none")

LinkedList_pushBack(l, value, newNode) ==
    LET heap == NewNode(l.heap, newNode, value)
    IN  IF LinkedList_isEmpty(l)
        THEN Outcome([l EXCEPT !.heap = heap, !.head = newNode, !.tail = newNode,
                               !.size = @ + 1], 0, "none")
        ELSE Outcome([l EXCEPT !.heap = [heap EXCEPT ![l.tail].next = newNode],
                               !.tail = newNode, !.size = @ + 1], 0, "none")

\* variant of insert: an index beyond the end appends instead of throwing
LinkedList_insertClamping(l, index, value, newNode) ==
    IF index = 0 THEN LinkedList_pushFront(l, value, newNode)
    ELSE IF index >= l.size THEN LinkedList_pushBack(l, value, newNode)
    ELSE LET current == Walk(l.heap, l.head, index - 1)
             heap    == NewNode(l.heap, newNode, value)
         IN  Outcome([l EXCEPT !.heap = [heap EXCEPT ![newNode].next = l.heap[current].next,
                                                     ![current].next = newNode],
                               !.size = @ + 1], 0, "none")

LinkedList_insert(l, index, value, newNode) ==
    IF index > l.size THEN Outcome(l, 0, "out_of_range")
    ELSE IF index = 0 THEN LinkedList_pushFront(l, value, newNode)
    ELSE IF index = l.size THEN LinkedList_pushBack(l, value, newNode)
    ELSE LET current == Walk(l.heap, l.head, index - 1)
             heap    == NewNode(l.heap, newNode, value)
         IN  Outcome([l EXCEPT !.heap = [heap EXCEPT ![newNode].next = l.heap[current].next,
                                                     ![current].next = newNode],
                               !.size = @ + 1], 0, "none")

LinkedList_popFront(l) ==
    IF LinkedList_isEmpty(l)
    THEN Outcome(l, 0, "underflow_error")
    ELSE LET temp == l.head
             next == l.heap[temp].next
         IN  Outcome([l EXCEPT !.heap = Delete(l.heap, temp),
                               !.head = next,
                               !.tail = IF next = Null THEN Null ELSE @,
                               !.size = @ - 1],
                     l.heap[temp].data, "none")

LinkedList_popBack(l) ==
    IF LinkedList_isEmpty(l) THEN Outcome(l, 0, "underflow_error")
    ELSE IF l.size = 1 THEN LinkedList_popFront(l)
    ELSE LET current == WalkUntilNext(l.heap, l.head, l.tail)
         IN  Outcome([l EXCEPT !.heap = [Delete(l.heap, l.tail) EXCEPT ![current].next = Null],
                               !.tail = current,
                               !.size = @ - 1],
                     l.heap[l.tail].data, "none")

LinkedList_removeAt(l, index) ==
    IF index >= l.size THEN Outcome(l, 0, "out_of_range")
    ELSE IF index = 0 THEN LinkedList_popFront(l)
    ELSE IF index = l.size - 1 THEN LinkedList_popBack(l)
    ELSE LET current      == Walk(l.heap, l.head, index - 1)
             nodeToDelete == l.heap[current].next
         IN  Outcome([l EXCEPT !.heap = [Delete(l.heap, nodeToDelete) EXCEPT
                                            ![current].next = l.heap[nodeToDelete].next],
                               !.size = @ - 1],
                     l.heap[nodeToDelete].data, "none")

\* current = current->next while there is a next node and it does not hold value
RECURSIVE WalkWhileNextNot(_, _, _)
WalkWhileNextNot(heap, current, value) ==
    IF heap[current].next # Null /\ heap[heap[current].next].data # value
    THEN WalkWhileNextNot(heap, heap[current].next, value)
    ELSE current

\* variant of remove: tail not moved when the node deleted is the tail
LinkedList_removeKeepTail(l, value) ==
    IF LinkedList_isEmpty(l) THEN Outcome(l, FALSE, "none")
    ELSE IF l.heap[l.head].data = value
    THEN Outcome(LinkedList_popFront(l).obj, TRUE, "none")
    ELSE LET current      == WalkWhileNextNot(l.heap, l.head, value)
             nodeToDelete == l.heap[current].next
         IN  IF nodeToDelete = Null THEN Outcome(l, FALSE, "none")
             ELSE Outcome([l EXCEPT !.heap = [Delete(l.heap, nodeToDelete) EXCEPT
                                                ![current].next = l.heap[nodeToDelete].next],
                                    !.size = @ - 1],
                          TRUE, "none")

LinkedList_remove(l, value) ==
    IF LinkedList_isEmpty(l) THEN Outcome(l, FALSE, "none")
    ELSE IF l.heap[l.head].data = value
    THEN Outcome(LinkedList_popFront(l).obj, TRUE, "none")
    ELSE LET current      == WalkWhileNextNot(l.heap, l.head, value)
             nodeToDelete == l.heap[current].next
         IN  IF nodeToDelete = Null THEN Outcome(l, FALSE, "none")
             ELSE Outcome([l EXCEPT !.heap = [Delete(l.heap, nodeToDelete) EXCEPT
                                                ![current].next = l.heap[nodeToDelete].next],
                                    !.tail = IF nodeToDelete = l.tail THEN current ELSE @,
                                    !.size = @ - 1],
                          TRUE, "none")

LinkedList_at(l, index) ==
    IF index >= l.size THEN Outcome(l, 0, "out_of_range")
    ELSE Outcome(l, l.heap[Walk(l.heap, l.head, index)].data, "none")

LinkedList_subscript(l, index) == LinkedList_at(l, index)

LinkedList_front(l) ==
    IF LinkedList_isEmpty(l) THEN Outcome(l, 0, "underflow_error")
    ELSE Outcome(l, l.heap[l.head].data, "none")

LinkedList_back(l) ==
    IF LinkedList_isEmpty(l) THEN Outcome(l, 0, "underflow_error")
    ELSE Outcome(l, l.heap[l.tail].data, "none")

RECURSIVE LinkedList_clear(_)
LinkedList_clear(l) ==
    IF LinkedList_isEmpty(l) THEN Outcome(l, 0, "none")
    ELSE LinkedList_clear(LinkedList_popFront(l).obj)

\* the while loop of reverse: the nodes from current on are turned to point
\* backwards; the result is the heap and the last node turned
RECURSIVE ReverseLoop(_, _, _)
ReverseLoop(heap, prev, current) ==
    IF current = Null THEN [heap |-> heap, prev |-> prev]
    ELSE ReverseLoop([heap EXCEPT ![current].next = prev], current, heap[current].next)

\* variant of reverse: tail left on the old last node
LinkedList_reverseKeepTail(l) ==
    IF l.size <= 1 THEN Outcome(l, 0, "none")
    ELSE LET r == ReverseLoop(l.heap, Null, l.head)
         IN  Outcome([l EXCEPT !.heap = r.heap, !.head = r.prev], 0, "none")

LinkedList_reverse(l) ==
    IF l.size <= 1 THEN Outcome(l, 0, "none")
    ELSE LET r == ReverseLoop(l.heap, Null, l.head)
         IN  Outcome([l EXCEPT !.heap = r.heap, !.tail = l.head, !.head = r.prev],
                     0, "none")

InitLinkedList ==
    /\ BfsOff
    /\ LibOffExcept("LinkedList")
    /\ ll = LinkedList
    /\ llCall = NoListCall

\* the addresses the allocator can hand out
Free(heap) == Addrs \ DOMAIN heap

\* indices as callers pass them: up to one past the longest list's size
Indices == 0..(MaxNodes + 1)

LlCall(op, args, o) ==
    /\ llCall.op = "none"
    /\ ll' = o.obj
    /\ llCall' = [op |-> op, args |-> args,
                  ret |-> IF op = "remove" THEN 0 ELSE o.ret,
                  retBool |-> IF op = "remove" THEN o.ret ELSE FALSE,
                  threw |-> o.threw]
    /\ UNCHANGED <<graphVars, gridVars, concVars, queueArrayVars, queueLinkedVars, sortVars, searchVars>>

LlPushFront(value) ==
    \E newNode \in Free(ll.heap) :
        LlCall("pushFront", <<value>>, LinkedList_pushFront(ll, value, newNode))

LlPushBack(value) ==
    \E newNode \in Free(ll.heap) :
        LlCall("pushBack", <<value>>, LinkedList_pushBack(ll, value, newNode))

\* insert allocates only after its range test has passed
LlInsert(index, value) ==
    IF index > ll.size
    THEN LlCall("insert", <<index, value>>, LinkedList_insert(ll, index, value, Null))
    ELSE \E newNode \in Free(ll.heap) :
            LlCall("insert", <<index, value>>, LinkedList_insert(ll, index, value, newNode))

LlPopFront == LlCall("popFront", <<>>, LinkedList_popFront(ll))

LlPopBack == LlCall("popBack", <<>>, LinkedList_popBack(ll))

LlRemoveAt(index) == LlCall("removeAt", <<index>>, LinkedList_removeAt(ll, index))

LlRemove(value) == LlCall("remove", <<value>>, LinkedList_remove(ll, value))

LlAt(index) == LlCall("at", <<index>>, LinkedList_at(ll, index))

LlSubscript(index) == LlCall("operator[]", <<index>>, LinkedList_subscript(ll, index))

LlFront == LlCall("front", <<>>, LinkedList_front(ll))

LlBack == LlCall("back", <<>>, LinkedList_back(ll))

LlClear == LlCall("clear", <<>>, LinkedList_clear(ll))

LlReverse == LlCall("reverse", <<>>, LinkedList_reverse(ll))

LlDrop ==
    /\ llCall.op # "none"
    /\ llCall' = NoListCall
    /\ UNCHANGED <<graphVars, gridVars, concVars, queueArrayVars, queueLinkedVars, sortVars, searchVars, ll>>

NextLinkedList ==
    \/ \E value \in Values : LlPushFront(value)
    \/ \E value \in Values : LlPushBack(value)
    \/ \E index \in Indices, value \in Values : LlInsert(index, value)
    \/ LlPopFront
    \/ LlPopBack
    \/ \E index \in Indices : LlRemoveAt(index)
    \/ \E value \in Values : LlRemove(value)
    \/ \E index \in Indices : LlAt(index)
    \/ \E index \in Indices : LlSubscript(index)
    \/ LlFront
    \/ LlBack
    \/ LlClear
    \/ LlReverse
    \/ LlDrop

SpecLinkedList == InitLinkedList /\ [][NextLinkedList]_vars

\* the data of the nodes from p on, in chain order
RECURSIVE ChainData(_, _)
ChainData(heap, p) ==
    IF p = Null THEN <<>> ELSE <<heap[p].data>> \o ChainData(heap, heap[p].next)

Elements(l) == ChainData(l.heap, l.head)

LlCalls(ops) == llCall.op = "none" /\ llCall'.op \in ops

\* C27: popFront, popBack, front and back on an empty list raise
\* underflow_error; at, operator[] and removeAt with index >= size and insert
\* with index > size raise out_of_range, while insert at index = size appends;
\* an error leaves the element sequence, size, head and tail as they were
C27_ListErrors ==
    [][/\ LlCalls({"popFront", "popBack", "front", "back"}) /\ Elements(ll) = <<>> =>
              llCall'.threw = "underflow_error"
       /\ LlCalls({"at", "operator[]", "removeAt"}) /\ llCall'.args[1] >= Len(Elements(ll)) =>
              llCall'.threw = "out_of_range"
       /\ LlCalls({"insert"}) /\ llCall'.args[1] > Len(Elements(ll)) =>
              llCall'.threw = "out_of_range"
       /\ LlCalls({"insert"}) /\ llCall'.args[1] = Len(Elements(ll)) =>
              /\ llCall'.threw = "none"
              /\ Elements(ll') = Append(Elements(ll), llCall'.args[2])
       /\ llCall'.threw # "none" =>
              /\ Elements(ll') = Elements(ll)
              /\ ll'.size = ll.size
              /\ ll'.head = ll.head
              /\ ll'.tail = ll.tail]_vars

\* insert at index 3 was refused on the list 1, 2 of size 2
C27_Witness ==
    /\ llCall.op = "insert"
    /\ llCall.args = <<3, 1>>
    /\ llCall.threw = "out_of_range"
    /\ Elements(ll) = <<1, 2>>
    /\ ll.size = 2

\* ============================================================== QuickSort
\* src/cpp/algorithms/quick_sort.h; a std::vector is a function on 0..size-1

\* the vector with the elements of the sequence s
Vec(s) == [i \in 0..(Len(s) - 1) |-> s[i + 1]]

Size(v) == Cardinality(DOMAIN v)

Vectors == UNION {[0..(n - 1) -> Keys] : n \in 0..MaxLen}

Swap(v, i, j) == [v EXCEPT ![i] = v[j], ![j] = v[i]]

\* the for loop of partition, from index j on
RECURSIVE PartitionLoop(_, _, _, _, _)
PartitionLoop(v, pivot, i, j, high) ==
    IF j >= high THEN [arr |-> v, i |-> i]
    ELSE IF v[j] <= pivot
         THEN PartitionLoop(Swap(v, i + 1, j), pivot, i + 1, j + 1, high)
         ELSE PartitionLoop(v, pivot, i, j + 1, high)

\* variant of partition: the pivot is not moved to its place
partitionNoFinalSwap(v, low, high) ==
    LET r == PartitionLoop(v, v[high], low - 1, low, high)
    IN  [arr |-> r.arr, pivotIndex |-> r.i + 1]

partition(v, low, high) ==
    LET r == PartitionLoop(v, v[high], low - 1, low, high)
    IN  [arr |-> Swap(r.arr, r.i + 1, high), pivotIndex |-> r.i + 1]

RECURSIVE quickSortRecursive(_, _, _)
quickSortRecursive(v, low, high) ==
    IF low < high
    THEN LET p == partition(v, low, high)
         IN  quickSortRecursive(quickSortRecursive(p.arr, low, p.pivotIndex - 1),
                                p.pivotIndex + 1, high)
    ELSE v

\* the while loop of quickSortIterative; the back of the vector stack is the
\* end of the sequence
RECURSIVE IterativeLoop(_, _)
IterativeLoop(v, stack) ==
    IF stack = <<>> THEN v
    ELSE LET low  == stack[Len(stack)][1]
             high == stack[Len(stack)][2]
             rest == SubSeq(stack, 1, Len(stack) - 1)
         IN  IF low < high
             THEN LET p == partition(v, low, high)
                  IN  IterativeLoop(p.arr, rest \o <<<<low, p.pivotIndex - 1>>,
                                                     <<p.pivotIndex + 1, high>>>>)
             ELSE IterativeLoop(v, rest)

quickSortIterative(v) ==
    IF Size(v) <= 1 THEN v ELSE IterativeLoop(v, <<<<0, Size(v) - 1>>>>)

\* the while loop of threeWayPartition
RECURSIVE ThreeWayLoop(_, _, _, _, _)
ThreeWayLoop(v, pivot, i, lt, gt) ==
    IF i > gt THEN [arr |-> v, lt |-> lt, gt |-> gt]
    ELSE IF v[i] < pivot THEN ThreeWayLoop(Swap(v, lt, i), pivot, i + 1, lt + 1, gt)
    ELSE IF v[i] > pivot THEN ThreeWayLoop(Swap(v, i, gt), pivot, i, lt, gt - 1)
    ELSE ThreeWayLoop(v, pivot, i + 1, lt, gt)

threeWayPartition(v, low, high) == ThreeWayLoop(v, v[low], low, low, high)

RECURSIVE threeWayQuickSort(_, _, _)
threeWayQuickSort(v, low, high) ==
    IF low >= high THEN v
    ELSE LET p == threeWayPartition(v, low, high)
         IN  threeWayQuickSort(threeWayQuickSort(p.arr, low, p.lt - 1), p.gt + 1, high)

sort(v) == IF Size(v) # 0 THEN quickSortRecursive(v, 0, Size(v) - 1) ELSE v

iterativeSort(v) == quickSortIterative(v)

threeWaySort(v) == IF Size(v) # 0 THEN threeWayQuickSort(v, 0, Size(v) - 1) ELSE v

InitQuickSort ==
    /\ BfsOff
    /\ LibOffExcept("QuickSort")
    /\ vec \in Vectors
    /\ sortCall = NoSortCall

\* a sorting function is called on the vector, which it sorts in place
Sorting(op, sorted) ==
    /\ sortCall.op = "none"
    /\ vec' = sorted
    /\ sortCall' = [op |-> op, input |-> vec]
    /\ UNCHANGED <<graphVars, gridVars, concVars, queueArrayVars, queueLinkedVars,
                   linkedListVars, searchVars>>

SortCall == Sorting("sort", sort(vec))

IterativeSortCall == Sorting("iterativeSort", iterativeSort(vec))

ThreeWaySortCall == Sorting("threeWaySort", threeWaySort(vec))

SortDrop ==
    /\ sortCall.op # "none"
    /\ sortCall' = NoSortCall
    /\ UNCHANGED <<graphVars, gridVars, concVars, queueArrayVars, queueLinkedVars,
                   linkedListVars, searchVars, vec>>

NextQuickSort == SortCall \/ IterativeSortCall \/ ThreeWaySortCall \/ SortDrop

SpecQuickSort == InitQuickSort /\ [][NextQuickSort]_vars

IsSorted(v) == \A i, j \in DOMAIN v : i <= j => v[i] <= v[j]

IsPermutation(v, w) ==
    /\ DOMAIN v = DOMAIN w
    /\ \A k \in Keys : Cardinality({i \in DOMAIN v : v[i] = k})
                        = Cardinality({i \in DOMAIN w : w[i] = k})

\* C28: whichever of sort, iterativeSort and threeWaySort is called, on any
\* vector (empty, one element, duplicates, sorted, reverse sorted), the call
\* returns with the vector in non-decreasing order and a permutation of what it
\* was, and the three functions give the same vector
C28_SortsAgree ==
    [][sortCall.op = "none" /\ sortCall'.op # "none" =>
          /\ IsSorted(vec')
          /\ IsPermutation(vec', vec)
          /\ sort(vec) = iterativeSort(vec)
          /\ iterativeSort(vec) = threeWaySort(vec)]_vars

\* threeWaySort has sorted the reverse-sorted 3, 2, 2, 1
C28_Witness ==
    /\ sortCall.op = "threeWaySort"
    /\ sortCall.input = Vec(<<3, 2, 2, 1>>)
    /\ vec = Vec(<<1, 2, 2, 3>>)

\* =========================================================== BinarySearch
\* src/cpp/algorithms/binary_search.h, on vectors sorted in ascending order

\* int right = arr.size() - 1: the unsigned difference wraps around for the
\* empty vector and converts to the int -1
LastIndex(v) == IF Size(v) = 0 THEN -1 ELSE Size(v) - 1

Mid(left, right) == left + (right - left) \div 2

\* the while loop of iterativeSearch
RECURSIVE IterativeSearchLoop(_, _, _, _)
IterativeSearchLoop(v, t, left, right) ==
    IF left > right THEN -1
    ELSE LET mid == Mid(left, right)
         IN  IF v[mid] = t THEN mid
             ELSE IF v[mid] < t THEN IterativeSearchLoop(v, t, mid + 1, right)
             ELSE IterativeSearchLoop(v, t, left, mid - 1)

iterativeSearch(v, t) == IterativeSearchLoop(v, t, 0, LastIndex(v))

\* variant of the four-argument recursiveSearch: the middle rounded up
RECURSIVE recursiveSearchInUpperMid(_, _, _, _)
recursiveSearchInUpperMid(v, t, left, right) ==
    IF left > right THEN -1
    ELSE LET mid == left + (right - left + 1) \div 2
         IN  IF v[mid] = t THEN mid
             ELSE IF v[mid] < t THEN recursiveSearchInUpperMid(v, t, mid + 1, right)
             ELSE recursiveSearchInUpperMid(v, t, left, mid - 1)

\* the four-argument recursiveSearch
RECURSIVE recursiveSearchIn(_, _, _, _)
recursiveSearchIn(v, t, left, right) ==
    IF left > right THEN -1
    ELSE LET mid == Mid(left, right)
         IN  IF v[mid] = t THEN mid
             ELSE IF v[mid] < t THEN recursiveSearchIn(v, t, mid + 1, right)
             ELSE recursiveSearchIn(v, t, left, mid - 1)

recursiveSearch(v, t) ==
    IF Size(v) = 0 THEN -1 ELSE recursiveSearchIn(v, t, 0, Size(v) - 1)

\* variant of the loop of findFirst: after a hit the search goes on to the right
RECURSIVE FindFirstLoopRightwards(_, _, _, _, _)
FindFirstLoopRightwards(v, t, left, right, result) ==
    IF left > right THEN result
    ELSE LET mid == Mid(left, right)
         IN  IF v[mid] = t THEN FindFirstLoopRightwards(v, t, mid + 1, right, mid)
             ELSE IF v[mid] < t THEN FindFirstLoopRightwards(v, t, mid + 1, right, result)
             ELSE FindFirstLoopRightwards(v, t, left, mid - 1, result)

\* the while loop of findFirst
RECURSIVE FindFirstLoop(_, _, _, _, _)
FindFirstLoop(v, t, left, right, result) ==
    IF left > right THEN result
    ELSE LET mid == Mid(left, right)
         IN  IF v[mid] = t THEN FindFirstLoop(v, t, left, mid - 1, mid)
             ELSE IF v[mid] < t THEN FindFirstLoop(v, t, mid + 1, right, result)
             ELSE FindFirstLoop(v, t, left, mid - 1, result)

findFirst(v, t) == FindFirstLoop(v, t, 0, LastIndex(v), -1)

\* the while loop of findLast
RECURSIVE FindLastLoop(_, _, _, _, _)
FindLastLoop(v, t, left, right, result) ==
    IF left > right THEN result
    ELSE LET mid == Mid(left, right)
         IN  IF v[mid] = t THEN FindLastLoop(v, t, mid + 1, right, mid)
             ELSE IF v[mid] < t THEN FindLastLoop(v, t, mid + 1, right, result)
             ELSE FindLastLoop(v, t, left, mid - 1, result)

findLast(v, t) == FindLastLoop(v, t, 0, LastIndex(v), -1)

countOccurrences(v, t) ==
    LET first == findFirst(v, t)
    IN  IF first = -1 THEN 0 ELSE findLast(v, t) - first + 1

SortedVectors == {v \in Vectors : IsSorted(v)}

\* targets: every key, and one value below and one above all keys
Targets == 0..(MaxKey + 1)

InitBinarySearch ==
    /\ BfsOff
    /\ LibOffExcept("BinarySearch")
    /\ searchArr \in SortedVectors
    /\ searchTarget \in Targets
    /\ searchCall = NoSearchCall
    /\ matrix = <<>>
    /\ matrixCall = NoMatrixCall

Searching(op, ret) ==
    /\ searchCall.op = "none"
    /\ searchCall' = [op |-> op, ret |-> ret]
    /\ UNCHANGED <<graphVars, gridVars, concVars, queueArrayVars, queueLinkedVars,
                   linkedListVars, sortVars, searchArr, searchTarget, matrix, matrixCall>>

IterativeSearchCall == Searching("iterativeSearch", iterativeSearch(searchArr, searchTarget))

RecursiveSearchCall == Searching("recursiveSearch", recursiveSearch(searchArr, searchTarget))

FindFirstCall == Searching("findFirst", findFirst(searchArr, searchTarget))

FindLastCall == Searching("findLast", findLast(searchArr, searchTarget))

CountOccurrencesCall == Searching("countOccurrences", countOccurrences(searchArr, searchTarget))

SearchDrop ==
    /\ searchCall.op # "none"
    /\ searchCall' = NoSearchCall
    /\ UNCHANGED <<graphVars, gridVars, concVars, queueArrayVars, queueLinkedVars,
                   linkedListVars, sortVars, searchArr, searchTarget, matrix, matrixCall>>

NextBinarySearch ==
    \/ IterativeSearchCall
    \/ RecursiveSearchCall
    \/ FindFirstCall
    \/ FindLastCall
    \/ CountOccurrencesCall
    \/ SearchDrop

SpecBinarySearch == InitBinarySearch /\ [][NextBinarySearch]_vars

\* the positions of the vector that hold the target
Positions == {i \in DOMAIN searchArr : searchArr[i] = searchTarget}

SearchCalls(op) == searchCall.op = "none" /\ searchCall'.op = op

\* C29: on a sorted vector iterativeSearch returns a position that holds the
\* target when there is one and -1 when there is none, and the two-argument
\* recursiveSearch returns the same index
C29_SearchesAgree ==
    [][/\ SearchCalls("iterativeSearch") =>
              IF Positions = {} THEN searchCall'.ret = -1
              ELSE searchCall'.ret \in Positions
       /\ SearchCalls("recursiveSearch") =>
              searchCall'.ret = iterativeSearch(searchArr, searchTarget)]_vars

\* recursiveSearch has found 3 at index 3 of 1, 2, 2, 3 after three halvings
C29_Witness ==
    /\ searchCall = [op |-> "recursiveSearch", ret |-> 3]
    /\ searchArr = Vec(<<1, 2, 2, 3>>)
    /\ searchTarget = 3

\* C30: findFirst returns the smallest and findLast the largest position that
\* holds the target, both -1 when none does, and countOccurrences returns the
\* number of positions that hold it
C30_FirstLastCount ==
    [][/\ SearchCalls("findFirst") =>
              IF Positions = {} THEN searchCall'.ret = -1
              ELSE /\ searchCall'.ret \in Positions
                   /\ \A i \in Positions : searchCall'.ret <= i
       /\ SearchCalls("findLast") =>
              IF Positions = {} THEN searchCall'.ret = -1
              ELSE /\ searchCall'.ret \in Positions
                   /\ \A i \in Positions : searchCall'.ret >= i
       /\ SearchCalls("countOccurrences") =>
              searchCall'.ret = Cardinality(Positions)]_vars

\* countOccurrences has counted the three 2s of 1, 2, 2, 2
C30_Witness ==
    /\ searchCall = [op |-> "countOccurrences", ret |-> 3]
    /\ searchArr = Vec(<<1, 2, 2, 2>>)
    /\ searchTarget = 2

\* ---------------------------------------------------------- searchRotated
\* the while loop of searchRotated
RECURSIVE SearchRotatedLoop(_, _, _, _)
SearchRotatedLoop(v, t, left, right) ==
    IF left > right THEN -1
    ELSE LET mid == Mid(left, right)
         IN  IF v[mid] = t THEN mid
             ELSE IF v[left] <= v[mid]
                  THEN IF t >= v[left] /\ t < v[mid]
                       THEN SearchRotatedLoop(v, t, left, mid - 1)
                       ELSE SearchRotatedLoop(v, t, mid + 1, right)
                  ELSE IF t > v[mid] /\ t <= v[right]
                       THEN SearchRotatedLoop(v, t, mid + 1, right)
                       ELSE SearchRotatedLoop(v, t, left, mid - 1)

searchRotated(v, t) == SearchRotatedLoop(v, t, 0, LastIndex(v))

\* the vector v rotated left by k places
Rotate(v, k) == [i \in DOMAIN v |-> v[(i + k) % Size(v)]]

\* every rotation of every ascending vector, duplicates allowed
RotatedVectors ==
    LET sorted == {v \in UNION {[0..(n - 1) -> Keys] : n \in 0..MaxRotatedLen} : IsSorted(v)}
    IN  {Rotate(v, k) : v \in sorted, k \in 0..(MaxRotatedLen - 1)}

InitRotated ==
    /\ BfsOff
    /\ LibOffExcept("BinarySearch")
    /\ searchArr \in RotatedVectors
    /\ searchTarget \in Targets
    /\ searchCall = NoSearchCall
    /\ matrix = <<>>
    /\ matrixCall = NoMatrixCall

SearchRotatedCall == Searching("searchRotated", searchRotated(searchArr, searchTarget))

NextRotated == SearchRotatedCall \/ SearchDrop

SpecRotated == InitRotated /\ [][NextRotated]_vars

\* C31: on every rotation of an ascending vector, duplicates allowed,
\* searchRotated returns a position that holds the target when there is one
\* and -1 when there is none
C31_SearchRotatedFinds ==
    [][SearchCalls("searchRotated") =>
          IF Positions = {} THEN searchCall'.ret = -1
          ELSE searchCall'.ret \in Positions]_vars

\* --------------------------------------------------------------- search2D
\* a matrix is a vector of rows, every row a vector

\* the while loop of search2D
RECURSIVE Search2DLoop(_, _, _, _, _)
Search2DLoop(m, t, cols, left, right) ==
    IF left > right THEN <<-1, -1>>
    ELSE LET mid == Mid(left, right)
             row == mid \div cols
             col == mid % cols
         IN  IF m[row][col] = t THEN <<row, col>>
             ELSE IF m[row][col] < t THEN Search2DLoop(m, t, cols, mid + 1, right)
             ELSE Search2DLoop(m, t, cols, left, mid - 1)

search2D(m, t) ==
    IF Size(m) = 0 \/ Size(m[0]) = 0 THEN <<-1, -1>>
    ELSE LET rows == Size(m)
             cols == Size(m[0])
         IN  Search2DLoop(m, t, cols, 0, rows * cols - 1)

\* rectangular matrices, the ones without rows or without columns included
Matrices ==
    UNION {[0..(r - 1) -> [0..(c - 1) -> Keys]] : r \in 0..MaxMatrixRows,
                                                 c \in 0..MaxMatrixCols}

\* every row ascending and every column ascending
RowAndColumnSorted(m) ==
    /\ \A r \in DOMAIN m : IsSorted(m[r])
    /\ \A r1, r2 \in DOMAIN m : r1 <= r2 => \A c \in DOMAIN m[r1] : m[r1][c] <= m[r2][c]

InitMatrix ==
    /\ BfsOff
    /\ LibOffExcept("BinarySearch")
    /\ searchArr = <<>>
    /\ searchCall = NoSearchCall
    /\ searchTarget \in Targets
    /\ matrix \in {m \in Matrices : RowAndColumnSorted(m)}
    /\ matrixCall = NoMatrixCall

Search2DCall ==
    /\ matrixCall.op = "none"
    /\ matrixCall' = [op |-> "search2D", ret |-> search2D(matrix, searchTarget)]
    /\ UNCHANGED <<graphVars, gridVars, concVars, queueArrayVars, queueLinkedVars,
                   linkedListVars, sortVars, searchArr, searchTarget, searchCall, matrix>>

MatrixDrop ==
    /\ matrixCall.op # "none"
    /\ matrixCall' = NoMatrixCall
    /\ UNCHANGED <<graphVars, gridVars, concVars, queueArrayVars, queueLinkedVars,
                   linkedListVars, sortVars, searchArr, searchTarget, searchCall, matrix>>

NextMatrix == Search2DCall \/ MatrixDrop

SpecMatrix == InitMatrix /\ [][NextMatrix]_vars

\* the (row, col) pairs of the matrix that hold the target
MatrixPositions ==
    {<<r, c>> \in (0..(MaxMatrixRows - 1)) \X (0..(MaxMatrixCols - 1)) :
        r \in DOMAIN matrix /\ c \in DOMAIN matrix[r] /\ matrix[r][c] = searchTarget}

\* C32: on every rectangular matrix with ascending rows and ascending columns
\* search2D returns a (row, col) that holds the target when there is one and
\* (-1, -1) when there is none
C32_Search2DFinds ==
    [][matrixCall.op = "none" /\ matrixCall'.op = "search2D" =>
          IF MatrixPositions = {} THEN matrixCall'.ret = <<-1, -1>>
          ELSE matrixCall'.ret \in MatrixPositions]_vars

\* ------------------------------------------------- LinkedList structure
\* the nodes met from p on by following next, at most fuel of them, stopping
\* at nullptr and at an address that holds no node
RECURSIVE ChainNodes(_, _, _)
ChainNodes(heap, p, fuel) ==
    IF p = Null \/ p \notin DOMAIN heap \/ fuel = 0 THEN <<>>
    ELSE <<p>> \o ChainNodes(heap, heap[p].next, fuel - 1)

\* the chain from head is made of live nodes, repeats none and ends in nullptr
WellFormed(l) ==
    LET nodes == ChainNodes(l.heap, l.head, MaxNodes + 1)
    IN  /\ Len(nodes) <= MaxNodes
        /\ NoDuplicates(nodes)
        /\ IF nodes = <<>> THEN l.head = Null
           ELSE l.heap[nodes[Len(nodes)]].next = Null

\* C34: whatever LinkedList calls have been made, failed ones included, size
\* is the number of nodes on the chain from head, the chain is acyclic and ends
\* at tail with tail->next null, and head and tail are null exactly when size
\* is 0; when remove or removeAt has deleted the last node, tail is the new
\* last node, and every pushBack appends after the last element
C34_ListStructure ==
    /\ [](LET nodes == ChainNodes(ll.heap, ll.head, MaxNodes + 1)
          IN  /\ WellFormed(ll)
              /\ ll.size = Len(nodes)
              /\ ll.head = Null <=> ll.size = 0
              /\ ll.tail = Null <=> ll.size = 0
              /\ nodes # <<>> => ll.tail = nodes[Len(nodes)] /\ ll.heap[ll.tail].next = Null)
    /\ [][/\ LlCalls({"pushBack"}) =>
                 Elements(ll') = Append(Elements(ll), llCall'.args[1])
          /\ LlCalls({"remove", "removeAt"}) /\ ll.tail \notin DOMAIN ll'.heap /\ ll'.size > 0 =>
                 /\ Elements(ll') = SubSeq(Elements(ll), 1, ll.size - 1)
                 /\ ll'.heap[ll'.tail].next = Null
                 /\ \A value \in Values, newNode \in Free(ll'.heap) :
                       Elements(LinkedList_pushBack(ll', value, newNode).obj)
                           = Append(Elements(ll'), value)]_vars

\* remove(2) has deleted the last node of the list 1, 1, 2
C34_Witness ==
    /\ llCall.op = "remove"
    /\ llCall.args = <<2>>
    /\ llCall.retBool
    /\ Elements(ll) = <<1, 1>>
    /\ ll.size = 2
    /\ ll.heap[ll.tail].next = Null

\* C35: reverse turns the element sequence around and keeps size; the old
\* first node becomes the tail and the old last node the head, so that a
\* pushBack afterwards appends after the old first element and a pushFront
\* prepends before the old last element; reversing twice gives the original
\* sequence
C35_Reverse ==
    [][LlCalls({"reverse"}) =>
          /\ Elements(ll') = Reverse(Elements(ll))
          /\ ll'.size = ll.size
          /\ ll'.tail = ll.head
          /\ ll'.head = ll.tail
          /\ \A value \in Values, newNode \in Free(ll'.heap) :
                /\ Elements(LinkedList_pushBack(ll', value, newNode).obj)
                       = Append(Reverse(Elements(ll)), value)
                /\ Elements(LinkedList_pushFront(ll', value, newNode).obj)
                       = <<value>> \o Reverse(Elements(ll))
          /\ Elements(LinkedList_reverse(ll').obj) = Elements(ll)]_vars

\* reverse has turned the list 1, 2 into 2, 1, with a node left to push
C35_Witness ==
    /\ llCall.op = "reverse"
    /\ Elements(ll) = <<2, 1>>
    /\ ll.heap[ll.tail].data = 1
    /\ Free(ll.heap) # {}

TypeOK ==
    /\ isDirected \in BOOLEAN
    /\ DOMAIN adjList \subseteq Ids
    /\ pc \in {"off", "idle", "while", "for"}
====
